---- MODULE Spec2Model ----
(***************************************************************************)
(* A model of vkrtlib (src/src/vkrtlib.cc, src/src/vkrtlib.h): the thin    *)
(* object layer over the Vulkan compute API.  The layer itself keeps no    *)
(* state besides the handles it owns; every state below that is not a      *)
(* field of a vkrtl class is the state of the driver object behind the     *)
(* handle (command buffer lifecycle, queue contents, memory contents),     *)
(* changed only through the driver calls the layer's methods make.         *)
(* A driver call's VkResult is an input of the action that makes the call. *)
(***************************************************************************)
EXTENDS Integers, Sequences, FiniteSets, TLC

VARIABLES
    memoryTypes,         \* physicalDeviceMemoryProperties.memoryTypes: Seq of flag sets
    memoryTypeMappable,  \* Device::memoryTypeMappable (0-based, -1 = not found)
    memoryTypeLocal,     \* Device::memoryTypeLocal    (0-based, -1 = not found)
    cb,                  \* command buffers: 0 is Device::implicitCommandBuffer
    queue,               \* work accepted by vkQueueSubmit and not yet finished
    submitted,           \* history: the command buffer of submission 1, 2, ...
    completed,           \* history: submission numbers in completion order
    discipline,          \* history: how submit() and wait() alternated so far
    deviceLost,          \* the driver lost the device (in-flight work was freed)
    buffers,             \* Buffer objects: handle, memory and memory contents
    hostSrc,             \* host array handed to offload()
    hostDst,             \* host array handed to inload()
    hostOverrun,         \* bytes inload() wrote past the end of hostDst
    offloaded,           \* history: what the last successful offload() sent to "dl"
    shadow,              \* history: what the host last saw/wrote through map() of "mp"
    pc,                  \* where the single host thread is
    xfer,                \* the transfer the host thread is blocked in
    lastOp,              \* the last call of the layer that returned (or threw)
    kernels,             \* Kernel objects: descriptor set layout and pipeline
    arguments,           \* Arguments objects: descriptor pool and descriptor set
    running,             \* shader invocations launched by a dispatch and not yet run
    cache,               \* device writes not yet made available to later reads
    instanceLayers,      \* layers vkEnumerateInstanceLayerProperties reports
    physicalDevices,     \* the physical devices: the queue families of each
    _verbose,            \* the global flag _verbose (line 22)
    _profile,            \* the global flag _profile (line 23)
    objects,             \* Object (Context) objects
    calls,               \* history: the driver calls made for the Objects, in order
    programs             \* Program objects: the shader module and the code it was given

vars == << memoryTypes, memoryTypeMappable, memoryTypeLocal, cb, queue, submitted,
           completed, discipline, deviceLost, buffers, hostSrc, hostDst,
           hostOverrun, offloaded, shadow, pc, xfer, lastOp,
           kernels, arguments, running, cache,
           instanceLayers, physicalDevices, _verbose, _profile, objects, calls, programs >>

kernelVars  == << kernels, arguments, running, cache, programs >>
contextVars == << instanceLayers, physicalDevices, _verbose, _profile, objects, calls >>

(***************************************************************************)
(* Bounds of the model.                                                    *)
(***************************************************************************)
MaxCmds    == 4   \* commands recorded into one command buffer
MaxSubmits == 2   \* submissions accepted by the queue in one run
MaxBytes   == 2   \* byteSize of a Buffer
MaxPad     == 1   \* bytes the driver may add to byteSize (alignment)
MaxSlots   == 2   \* entries of a resourceTypes or resources vector
MaxDevices == 2   \* physical devices of the host
MaxFamilies == 2  \* queue families of a physical device
MaxTypes   == 2   \* memory types of a physical device
MaxWords   == 3   \* 32-bit words of a SPIR-V file or blob

Byte         == {0, 1}
UserCmdBufs  == {1, 2}
ImplicitCB   == 0
CmdBufs      == {ImplicitCB} \cup UserCmdBufs
Kernels      == {"kn"}
ArgumentSets == {"args"}
DispatchDims == {<<1, 1, 1>>}
BufIds       == {"dl", "mp", "staging"}

(***************************************************************************)
(* vkrtlib.h: enum Error, and the VkResult of a driver call.               *)
(***************************************************************************)
VK_SUCCESS == "VK_SUCCESS"
VK_ERROR   == "VK_ERROR"
VkResults  == {VK_SUCCESS, VK_ERROR}
NoError    == "none"

VKRTL_ERROR_SUBMIT_QUEUE   == "VKRTL_ERROR_SUBMIT_QUEUE"
VKRTL_ERROR_COMMAND_POOL   == "VKRTL_ERROR_COMMAND_POOL"
VKRTL_ERROR_COMMAND_BUFFER == "VKRTL_ERROR_COMMAND_BUFFER"
VKRTL_ERROR_CREATE_BUFFER  == "VKRTL_ERROR_CREATE_BUFFER"
VKRTL_ERROR_MAP            == "VKRTL_ERROR_MAP"
VKRTL_ERROR_MALLOC         == "VKRTL_ERROR_MALLOC"

\* A faulty variant of the test: it throws on VK_SUCCESS.
ThrowUnlessInverted(r, e) == IF r # VK_SUCCESS THEN NoError ELSE e
\* `if (VK_SUCCESS != vkXxx(...)) throw e;`
ThrowUnless(r, e) == IF r = VK_SUCCESS THEN NoError ELSE e

(***************************************************************************)
(* Device::Device, lines 241-257: the first memory type with each flag.    *)
(***************************************************************************)
HOST_VISIBLE == "VK_MEMORY_PROPERTY_HOST_VISIBLE_BIT"
DEVICE_LOCAL == "VK_MEMORY_PROPERTY_DEVICE_LOCAL_BIT"

\* A faulty variant of the scan: every matching type overwrites the index, so
\* the last one stays.
RECURSIVE ScanMemoryTypes_last(_, _, _, _)
ScanMemoryTypes_last(types, i, flag, found) ==
    IF i >= Len(types) THEN found
    ELSE ScanMemoryTypes_last(types, i + 1, flag, IF flag \in types[i + 1] THEN i ELSE found)
\* The loop of lines 243-257: an index is set only while it is still -1.
RECURSIVE ScanMemoryTypes(_, _, _, _)
ScanMemoryTypes(types, i, flag, found) ==
    IF i >= Len(types) THEN found
    ELSE ScanMemoryTypes(types, i + 1, flag,
                         IF flag \in types[i + 1] /\ found = -1 THEN i ELSE found)

\* The memory-type lists of the physical devices the model is run on.
PhysicalDevices ==
    { << {HOST_VISIBLE, DEVICE_LOCAL} >>,
      << {DEVICE_LOCAL}, {HOST_VISIBLE} >>,
      << {HOST_VISIBLE}, {DEVICE_LOCAL} >>,
      << {}, {HOST_VISIBLE, DEVICE_LOCAL} >> }

(***************************************************************************)
(* Command buffers.                                                        *)
(***************************************************************************)
NoCB == [live |-> FALSE, state |-> "None", cmds |-> << >>]

CmdBindDescriptorSets(a) == << "vkCmdBindDescriptorSets", a >>
CmdBindPipeline(k)       == << "vkCmdBindPipeline", k >>
CmdDispatch(x, y, z)     == << "vkCmdDispatch", x, y, z >>
CmdPipelineBarrier       == << "vkCmdPipelineBarrier" >>
CmdCopyBuffer(s, d, n)   == << "vkCmdCopyBuffer", s, d, n >>

\* CommandBuffer::sharedConstructor: a pool and one primary buffer, Initial.
sharedConstructor == [live |-> TRUE, state |-> "Initial", cmds |-> << >>]

\* vkBeginCommandBuffer accepted: recording starts on an empty buffer (the pool
\* is created with RESET_COMMAND_BUFFER_BIT, so a begin resets implicitly).
vkBeginCommandBuffer(c, r) ==
    IF r = VK_SUCCESS THEN [c EXCEPT !.state = "Recording", !.cmds = << >>] ELSE c

\* A faulty variant: an accepted end() puts the buffer back to Initial.
vkEndCommandBuffer_resets(c, r) ==
    [c EXCEPT !.state = IF r = VK_SUCCESS THEN "Initial" ELSE "Invalid"]
\* vkEndCommandBuffer: Executable when accepted, Invalid when it reports an error.
vkEndCommandBuffer(c, r) ==
    [c EXCEPT !.state = IF r = VK_SUCCESS THEN "Executable" ELSE "Invalid"]

\* A vkCmd* call: the command is appended to a buffer that is recording.  In any
\* other state the call is invalid usage the layer does not check: the driver
\* may take the command or drop it.
RecordOutcomes(c, cmd) ==
    IF c.state = "Recording" THEN { [c EXCEPT !.cmds = Append(@, cmd)] }
    ELSE { c, [c EXCEPT !.cmds = Append(@, cmd)] }

\* A call of the layer that has returned: the method, the object, the VkResult
\* of the last driver call it made, and the vkrtl::Error it threw (or none).
Returned(op, obj, r, e) == [op |-> op, obj |-> obj, vk |-> r, err |-> e]

\* The result of driver call `call` when `f` names the first call the driver rejects.
R(f, call) == IF f = call THEN VK_ERROR ELSE VK_SUCCESS

RECURSIVE FirstThrow(_)
FirstThrow(steps) ==
    IF steps = << >> THEN NoError
    ELSE IF Head(steps) # NoError THEN Head(steps) ELSE FirstThrow(Tail(steps))


(***************************************************************************)
(* CommandBuffer                                                           *)
(***************************************************************************)
\* sharedConstructor(), lines 351-373: the error it throws, if any.
sharedConstructor_throws(f) ==
    FirstThrow(<< ThrowUnless(R(f, "vkCreateCommandPool"), VKRTL_ERROR_COMMAND_POOL),
                  ThrowUnless(R(f, "vkAllocateCommandBuffers"), VKRTL_ERROR_COMMAND_BUFFER) >>)

\* CommandBuffer::begin(), lines 395-400.
begin_throws(r) == ThrowUnless(r, VKRTL_ERROR_COMMAND_BUFFER)

\* CommandBuffer::end(), lines 413-417.
end_throws(r) == ThrowUnless(r, VKRTL_ERROR_COMMAND_BUFFER)

\* CommandBuffer::CommandBuffer(Device&)
CommandBuffer_ctor1(id) ==
    /\ pc = "idle" /\ ~cb[id].live
    /\ \E f \in {"none", "vkCreateCommandPool", "vkAllocateCommandBuffers"} :
         LET e == sharedConstructor_throws(f) IN
         /\ cb' = [cb EXCEPT ![id] = IF e = NoError THEN sharedConstructor ELSE @]
         /\ lastOp' = [op |-> "CommandBuffer", obj |-> id,
                       vk |-> IF f = "none" THEN VK_SUCCESS ELSE VK_ERROR, err |-> e,
                       rejected |-> f]
    /\ UNCHANGED << contextVars, kernelVars, memoryTypes, memoryTypeMappable, memoryTypeLocal, queue, submitted,
                    completed, discipline, deviceLost, buffers, hostSrc, hostDst,
                    hostOverrun, offloaded, shadow, pc, xfer >>

\* A faulty variant: the two binds in the opposite order.
ctor3_bindings_swapped(k, a) == << CmdBindPipeline(k), CmdBindDescriptorSets(a) >>
\* What CommandBuffer(Device&, Kernel&, Arguments&) records after begin():
\* arguments.bindTo(*this); kernel.bindTo(*this);
ctor3_bindings(k, a) == << CmdBindDescriptorSets(a), CmdBindPipeline(k) >>

\* CommandBuffer::CommandBuffer(Device&, Kernel&, Arguments&), lines 379-384.
CommandBuffer_ctor3(id, k, a) ==
    /\ pc = "idle" /\ ~cb[id].live
    /\ \E f \in {"none", "vkCreateCommandPool", "vkAllocateCommandBuffers",
                 "vkBeginCommandBuffer"} :
         LET e1 == sharedConstructor_throws(f)
             e2 == begin_throws(R(f, "vkBeginCommandBuffer"))
             e  == FirstThrow(<< e1, e2 >>)
             c0 == vkBeginCommandBuffer(sharedConstructor, R(f, "vkBeginCommandBuffer"))
         IN
         /\ cb' = [cb EXCEPT ![id] =
                      IF e = NoError
                      THEN [c0 EXCEPT !.cmds = c0.cmds \o ctor3_bindings(k, a)]
                      ELSE @]
         /\ lastOp' = Returned("CommandBuffer3", id, IF f = "none" THEN VK_SUCCESS ELSE VK_ERROR, e)
    /\ UNCHANGED << contextVars, kernelVars, memoryTypes, memoryTypeMappable, memoryTypeLocal, queue, submitted,
                    completed, discipline, deviceLost, buffers, hostSrc, hostDst,
                    hostOverrun, offloaded, shadow, pc, xfer >>

\* CommandBuffer::begin().  The layer checks nothing: the call goes to the driver
\* whatever the buffer's state, and only the driver's result decides.
CommandBuffer_begin(id) ==
    /\ pc = "idle" /\ cb[id].live
    /\ cb[id].state \in {"Initial", "Recording", "Executable", "Invalid"}
    /\ \E r \in VkResults :
         /\ cb' = [cb EXCEPT ![id] = vkBeginCommandBuffer(@, r)]
         /\ lastOp' = Returned("begin", id, r, begin_throws(r))
    /\ UNCHANGED << contextVars, kernelVars, memoryTypes, memoryTypeMappable, memoryTypeLocal, queue, submitted,
                    completed, discipline, deviceLost, buffers, hostSrc, hostDst,
                    hostOverrun, offloaded, shadow, pc, xfer >>

\* CommandBuffer::end()
CommandBuffer_end(id) ==
    /\ pc = "idle" /\ cb[id].live
    /\ cb[id].state = "Recording"
    /\ \E r \in VkResults :
         /\ cb' = [cb EXCEPT ![id] = vkEndCommandBuffer(@, r)]
         /\ lastOp' = Returned("end", id, r, end_throws(r))
    /\ UNCHANGED << contextVars, kernelVars, memoryTypes, memoryTypeMappable, memoryTypeLocal, queue, submitted,
                    completed, discipline, deviceLost, buffers, hostSrc, hostDst,
                    hostOverrun, offloaded, shadow, pc, xfer >>

\* The states in which the model's caller records commands (4.7: "must be called
\* while Recording"; the layer itself does not check).
RecordableStates == {"Recording"}

\* The caller keeps to 4.7: it records into command buffer id only while the
\* buffer is Recording.
Recording(id) == cb[id].state \in RecordableStates

\* A faulty variant: the method looks at the state and throws unless the
\* buffer is Recording.
Record_checked(op, id, cmd) ==
    /\ pc = "idle" /\ cb[id].live
    /\ Len(cb[id].cmds) < MaxCmds
    /\ cb' = IF Recording(id) THEN [cb EXCEPT ![id].cmds = Append(@, cmd)] ELSE cb
    /\ lastOp' = [op |-> op, obj |-> id, vk |-> VK_SUCCESS,
                  err |-> IF Recording(id) THEN NoError ELSE VKRTL_ERROR_COMMAND_BUFFER,
                  forwarded |-> cmd, from |-> cb[id].state]
    /\ UNCHANGED << contextVars, kernelVars, memoryTypes, memoryTypeMappable, memoryTypeLocal, queue, submitted,
                    completed, discipline, deviceLost, buffers, hostSrc, hostDst,
                    hostOverrun, offloaded, shadow, pc, xfer >>
\* A method that only forwards one vkCmd* call: it looks at no state and
\* cannot throw.
Record(op, id, cmd) ==
    /\ pc = "idle" /\ cb[id].live
    /\ Len(cb[id].cmds) < MaxCmds
    /\ \E c \in RecordOutcomes(cb[id], cmd) : cb' = [cb EXCEPT ![id] = c]
    /\ lastOp' = [op |-> op, obj |-> id, vk |-> VK_SUCCESS, err |-> NoError,
                  forwarded |-> cmd, from |-> cb[id].state]
    /\ UNCHANGED << contextVars, kernelVars, memoryTypes, memoryTypeMappable, memoryTypeLocal, queue, submitted,
                    completed, discipline, deviceLost, buffers, hostSrc, hostDst,
                    hostOverrun, offloaded, shadow, pc, xfer >>

\* CommandBuffer::dispatch(x, y, z), lines 409-411.
CommandBuffer_dispatch(id, x, y, z) == Record("dispatch", id, CmdDispatch(x, y, z))

\* dispatch(int x = 1, int y = 1, int z = 1), vkrtlib.h line 144: the calls that
\* leave arguments out.
DefaultCount == 1
CommandBuffer_dispatch0(id)       == CommandBuffer_dispatch(id, DefaultCount, DefaultCount, DefaultCount)
CommandBuffer_dispatch1(id, x)    == CommandBuffer_dispatch(id, x, DefaultCount, DefaultCount)
CommandBuffer_dispatch2(id, x, y) == CommandBuffer_dispatch(id, x, y, DefaultCount)

\* CommandBuffer::barrier(), lines 402-407.
CommandBuffer_barrier(id) == Record("barrier", id, CmdPipelineBarrier)

\* Kernel::bindTo(commandBuffer), lines 602-604.
Kernel_bindTo(k, id) == Record("Kernel::bindTo", id, CmdBindPipeline(k))

\* Arguments::bindTo(commandBuffer), lines 656-659.
Arguments_bindTo(a, id) == Record("Arguments::bindTo", id, CmdBindDescriptorSets(a))

\* Buffer::enqueueCopy(src, dst, byteSize, commandBuffer), lines 460-463.
Buffer_enqueueCopy(s, d, n, id) ==
    /\ buffers[s].live /\ buffers[d].live
    /\ Record("enqueueCopy", id, CmdCopyBuffer(s, d, n))

\* A faulty variant: the pool is destroyed before the handle is freed.
destroy_calls_poolFirst == << "vkDestroyCommandPool", "vkFreeCommandBuffers" >>
\* CommandBuffer::destroy(), lines 387-388: the driver calls it makes.
destroy_calls == << "vkFreeCommandBuffers", "vkDestroyCommandPool" >>

\* CommandBuffer::destroy(), lines 386-389: no state is looked at; work of this
\* buffer that is still in the queue now refers to freed memory.
CommandBuffer_destroy(id) ==
    /\ pc = "idle" /\ cb[id].live
    /\ cb' = [cb EXCEPT ![id] = NoCB]
    /\ queue' = [i \in 1..Len(queue) |->
                   IF queue[i].cb = id THEN [queue[i] EXCEPT !.freed = TRUE]
                   ELSE queue[i]]
    /\ lastOp' = [op |-> "destroy", obj |-> id, vk |-> VK_SUCCESS, err |-> NoError,
                  calls |-> destroy_calls, from |-> cb[id].state]
    /\ UNCHANGED << contextVars, kernelVars, memoryTypes, memoryTypeMappable, memoryTypeLocal, submitted,
                    completed, discipline, deviceLost, buffers, hostSrc, hostDst,
                    hostOverrun, offloaded, shadow, pc, xfer >>

(***************************************************************************)
(* Device: submit, wait, and the device's asynchronous execution.          *)
(***************************************************************************)
\* Device::submit, lines 326-334: the error it throws.
submit_throws(r) == ThrowUnless(r, VKRTL_ERROR_SUBMIT_QUEUE)

\* A faulty variant of Device::wait: it throws when the driver reports success.
wait_throws_inverted(r) == ThrowUnlessInverted(r, VKRTL_ERROR_SUBMIT_QUEUE)
\* Device::wait, lines 336-340: the error it throws.
wait_throws(r) == ThrowUnless(r, VKRTL_ERROR_SUBMIT_QUEUE)

\* A faulty variant: the new batch replaces what the queue held.
vkQueueSubmit_replaces(q, n, id, cmds) ==
    << [sub |-> n, cb |-> id, cmds |-> cmds, next |-> 1, freed |-> FALSE] >>
\* vkQueueSubmit accepted: one batch holding the command buffer as recorded.
vkQueueSubmit(q, n, id, cmds) ==
    Append(q, [sub |-> n, cb |-> id, cmds |-> cmds, next |-> 1, freed |-> FALSE])

\* Faulty variants: a wait that does not wait, and one that waits only until
\* at most one batch is left.
vkQueueWaitIdle_nowait(q) == TRUE
vkQueueWaitIdle_oldest(q) == Len(q) <= 1
\* vkQueueWaitIdle returns VK_SUCCESS once the queue holds no unfinished work.
vkQueueWaitIdle(q) == q = << >>

\* What a driver call on the queue may return: anything, but never success
\* once the device is lost.
QueueResults == IF deviceLost THEN {VK_ERROR} ELSE VkResults

SubmitDiscipline(d) == IF d = "waited" THEN "submitted" ELSE "overlapped"
WaitDiscipline(d)   == IF d = "submitted" THEN "waited" ELSE d

\* Device::submit(commandBuffer): returns when vkQueueSubmit returns.
Device_submit(id) ==
    /\ pc = "idle" /\ cb[id].live
    /\ cb[id].state = "Executable"
    /\ Len(submitted) < MaxSubmits
    /\ \E r \in QueueResults :
         /\ lastOp' = Returned("submit", id, r, submit_throws(r))
         /\ IF r = VK_SUCCESS
            THEN /\ queue' = vkQueueSubmit(queue, Len(submitted) + 1, id, cb[id].cmds)
                 /\ cb' = [cb EXCEPT ![id].state = "Pending"]
                 /\ submitted' = Append(submitted, id)
                 /\ discipline' = SubmitDiscipline(discipline)
            ELSE UNCHANGED << queue, cb, submitted, discipline >>
    /\ UNCHANGED << contextVars, kernelVars, memoryTypes, memoryTypeMappable, memoryTypeLocal, completed,
                    deviceLost, buffers, hostSrc, hostDst, hostOverrun, offloaded,
                    shadow, pc, xfer >>

\* Device::wait(): blocks in vkQueueWaitIdle; it returns VK_SUCCESS only when the
\* queue has drained, and may report an error at any time.
Device_wait ==
    /\ pc = "idle"
    /\ \E r \in QueueResults :
         /\ r = VK_SUCCESS => vkQueueWaitIdle(queue)
         /\ lastOp' = Returned("wait", ImplicitCB, r, wait_throws(r))
         /\ discipline' = IF r = VK_SUCCESS THEN WaitDiscipline(discipline) ELSE discipline
    /\ UNCHANGED << contextVars, kernelVars, memoryTypes, memoryTypeMappable, memoryTypeLocal, cb, queue,
                    submitted, completed, deviceLost, buffers, hostSrc, hostDst,
                    hostOverrun, offloaded, shadow, pc, xfer >>

(***************************************************************************)
(* Kernel and Arguments                                                    *)
(***************************************************************************)
VKRTL_ERROR_SHADER     == "VKRTL_ERROR_SHADER"
VKRTL_ERROR_PIPELINE   == "VKRTL_ERROR_PIPELINE"
VKRTL_ERROR_DESCRIPTOR == "VKRTL_ERROR_DESCRIPTOR"

\* vkrtlib.h, enum ResourceType.
STORAGE_BUFFER == "VK_DESCRIPTOR_TYPE_STORAGE_BUFFER"
VK_SHADER_STAGE_COMPUTE_BIT == "VK_SHADER_STAGE_COMPUTE_BIT"

(***************************************************************************)
(* Program                                                                 *)
(***************************************************************************)
ProgramIds == {"prog"}

\* sizeof(uint32_t *): 8 on an LP64 build, 4 on an ILP32 one.
PointerSizes == {4, 8}

\* The byte lengths of the SPIR-V files and blobs the caller has: whole words.
CodeLengths == { 4 * w : w \in 1..MaxWords }

NoProgram == [live |-> FALSE, from |-> "none", length |-> 0, codeSize |-> 0,
              shaderModule |-> "none"]

\* Program::Program(device, fileName), lines 527-535: byteLength = fin.tellg()
\* of the file opened at its end; codeSize = byteLength.
fileCodeSize(byteLength) == byteLength

\* A faulty variant: the length of the blob is passed.
dataCodeSize_length(length, pointer) == length
\* Program::Program(device, data), line 545: codeSize = sizeof(data), the size
\* of the pointer; the length of the blob is not a parameter.
dataCodeSize(length, pointer) == pointer

\* Either constructor, from vkCreateShaderModule on: the Program it builds and
\* the error it throws.
CreateShaderModule(p, from, length, codeSize) ==
    /\ pc = "idle" /\ ~programs[p].live
    /\ \E r \in VkResults :
         /\ programs' = [programs EXCEPT ![p] =
                           IF r = VK_SUCCESS
                           THEN [live |-> TRUE, from |-> from, length |-> length,
                                 codeSize |-> codeSize, shaderModule |-> "created"]
                           ELSE @]
         /\ lastOp' = [op |-> "Program", obj |-> ImplicitCB, vk |-> r,
                       err |-> ThrowUnless(r, VKRTL_ERROR_SHADER),
                       from |-> from, length |-> length, codeSize |-> codeSize]
    /\ UNCHANGED << contextVars, kernels, arguments, running, cache, memoryTypes,
                    memoryTypeMappable, memoryTypeLocal, cb, queue, submitted, completed,
                    discipline, deviceLost, buffers, hostSrc, hostDst, hostOverrun,
                    offloaded, shadow, pc, xfer >>

\* Program::Program(device, fileName), lines 526-541, on a file of byteLength bytes.
Program_fromFile(p, byteLength) ==
    CreateShaderModule(p, "file", byteLength, fileCodeSize(byteLength))

\* Program::Program(device, data), lines 543-550, on a blob of `length` bytes.
\* `pointer` is sizeof(uint32_t *) of the build.
Program_fromData(p, length, pointer) ==
    CreateShaderModule(p, "data", length, dataCodeSize(length, pointer))

\* Program::destroy(), lines 552-556.
Program_destroy(p) ==
    /\ pc = "idle" /\ programs[p].live
    /\ programs' = [programs EXCEPT ![p].live = FALSE, ![p].shaderModule = "destroyed"]
    /\ lastOp' = Returned("Program::destroy", ImplicitCB, VK_SUCCESS, NoError)
    /\ UNCHANGED << contextVars, kernels, arguments, running, cache, memoryTypes,
                    memoryTypeMappable, memoryTypeLocal, cb, queue, submitted, completed,
                    discipline, deviceLost, buffers, hostSrc, hostDst, hostOverrun,
                    offloaded, shadow, pc, xfer >>

KernelIds    == {"kn", "kn1", "kn2"}
ArgumentsIds == {"args", "args1", "args2"}

\* The entry points of the shader sources, with the number of bindings each
\* declares (one per kernel parameter).
EntryPoints    == {"doubleMe", "tripleMe", "comp"}
DeclaredBindings(entry) == IF entry = "comp" THEN 2 ELSE 1

NoKernel    == [live |-> FALSE, entry |-> "none", bindings |-> << >>, program |-> "none",
                descriptorSetLayout |-> "none", pipelineLayout |-> "none",
                pipeline |-> "none"]
NoArguments == [live |-> FALSE, kernel |-> "none", poolSizes |-> << >>, maxSets |-> 0,
                write |-> [dstBinding |-> 0, descriptorCount |-> 0, pBufferInfo |-> << >>],
                set |-> << >>, overrun |-> 0]

\* A faulty variant: binding numbers counted from 1.
LayoutBindings_from1(resourceTypes) ==
    [i \in 1..Len(resourceTypes) |->
       [binding |-> i, descriptorType |-> resourceTypes[i],
        descriptorCount |-> 1, stageFlags |-> VK_SHADER_STAGE_COMPUTE_BIT]]
\* Kernel::Kernel, lines 562-569: bindings[i] for i = 0 .. resourceTypes.size()-1
\* (element i of the vector is resourceTypes[i + 1] here).
LayoutBindings(resourceTypes) ==
    [i \in 1..Len(resourceTypes) |->
       [binding |-> i - 1, descriptorType |-> resourceTypes[i],
        descriptorCount |-> 1, stageFlags |-> VK_SHADER_STAGE_COMPUTE_BIT]]

\* Kernel::Kernel, lines 574-599: the error it throws, if any.
Kernel_throws(f) ==
    FirstThrow(<< ThrowUnless(R(f, "vkCreateDescriptorSetLayout"), VKRTL_ERROR_SHADER),
                  ThrowUnless(R(f, "vkCreatePipelineLayout"), VKRTL_ERROR_SHADER),
                  ThrowUnless(R(f, "vkCreateComputePipelines"), VKRTL_ERROR_PIPELINE) >>)

KernelFaults == {"none", "vkCreateDescriptorSetLayout", "vkCreatePipelineLayout",
                 "vkCreateComputePipelines"}

\* Kernel::Kernel, lines 575-597: the driver calls it makes, with their results,
\* up to the first one that makes it throw.
Kernel_calls(f) ==
    LET steps  == << << "vkCreateDescriptorSetLayout", R(f, "vkCreateDescriptorSetLayout") >>,
                     << "vkCreatePipelineLayout", R(f, "vkCreatePipelineLayout") >>,
                     << "vkCreateComputePipelines", R(f, "vkCreateComputePipelines") >> >>
        failed == { i \in 1..Len(steps) : steps[i][2] # VK_SUCCESS }
    IN SubSeq(steps, 1, IF failed = {} THEN Len(steps)
                        ELSE CHOOSE i \in failed : \A j \in failed : i <= j)

\* The handle a create call leaves in its member: created when the call was
\* made and returned VK_SUCCESS.
Created(made, fn) ==
    IF \E i \in 1..Len(made) : made[i][1] = fn /\ made[i][2] = VK_SUCCESS
    THEN "created" ELSE "none"

\* The Kernel a successful Kernel::Kernel(device, program, kernelName,
\* resourceTypes) builds.
NewKernel(p, entry, resourceTypes) ==
    [live |-> TRUE, entry |-> entry, bindings |-> LayoutBindings(resourceTypes),
     program |-> p, descriptorSetLayout |-> "created", pipelineLayout |-> "created",
     pipeline |-> "created"]

\* A faulty variant: a constructor that throws destroys what it had created.
ThrownKernel_released(made) == NoKernel
\* What a Kernel::Kernel that threw leaves behind: there is no Kernel object (no
\* destroy() can be called on it), and every handle created before the throw
\* stays allocated, no statement between the call and the throw releasing it.
ThrownKernel(made) ==
    [NoKernel EXCEPT !.descriptorSetLayout = Created(made, "vkCreateDescriptorSetLayout"),
                     !.pipelineLayout = Created(made, "vkCreatePipelineLayout"),
                     !.pipeline = Created(made, "vkCreateComputePipelines")]

\* Kernel::Kernel(device, program, kernelName, resourceTypes).  Nothing in it
\* compares resourceTypes with what the entry point declares; a driver handed a
\* layout that does not fit the shader may reject the pipeline or build it.
Kernel_ctor(k, p, entry, resourceTypes) ==
    /\ pc = "idle" /\ ~kernels[k].live /\ programs[p].live
    /\ \E f \in KernelFaults :
         LET e == Kernel_throws(f) IN
         /\ kernels' = [kernels EXCEPT ![k] =
                          IF e = NoError THEN NewKernel(p, entry, resourceTypes)
                          ELSE ThrownKernel(Kernel_calls(f))]
         /\ lastOp' = [op |-> "Kernel", obj |-> k,
                       vk |-> IF f = "none" THEN VK_SUCCESS ELSE VK_ERROR, err |-> e,
                       calls |-> Kernel_calls(f)]
    /\ UNCHANGED << contextVars, programs, arguments, running, cache, memoryTypes,
                    memoryTypeMappable, memoryTypeLocal, cb, queue, submitted, completed,
                    discipline, deviceLost, buffers, hostSrc, hostDst, hostOverrun,
                    offloaded, shadow, pc, xfer >>

\* Kernel::destroy(), lines 606-612.
Kernel_destroy(k) ==
    /\ pc = "idle" /\ kernels[k].live
    /\ kernels' = [kernels EXCEPT ![k].live = FALSE,
                                  ![k].descriptorSetLayout = "destroyed",
                                  ![k].pipelineLayout = "destroyed",
                                  ![k].pipeline = "destroyed"]
    /\ lastOp' = Returned("Kernel::destroy", ImplicitCB, VK_SUCCESS, NoError)
    /\ UNCHANGED << contextVars, programs, arguments, running, cache, memoryTypes,
                    memoryTypeMappable, memoryTypeLocal, cb, queue, submitted, completed,
                    discipline, deviceLost, buffers, hostSrc, hostDst, hostOverrun,
                    offloaded, shadow, pc, xfer >>

\* Arguments::Arguments, lines 616-635: the error it throws, if any.
Arguments_throws(f) ==
    FirstThrow(<< ThrowUnless(R(f, "vkCreateDescriptorPool"), VKRTL_ERROR_DESCRIPTOR),
                  ThrowUnless(R(f, "vkAllocateDescriptorSets"), VKRTL_ERROR_DESCRIPTOR) >>)

\* What the driver may answer to Arguments::Arguments: either call may fail,
\* whatever the sizes are (a set of more descriptors than the pool holds is
\* allocated or refused, as the driver pleases).
ArgumentsFaults == {"none", "vkCreateDescriptorPool", "vkAllocateDescriptorSets"}

\* Arguments::Arguments, lines 638-652: the one VkWriteDescriptorSet.
WriteDescriptorSet(resources) ==
    [dstBinding |-> 0, descriptorCount |-> Len(resources), pBufferInfo |-> resources]

\* vkUpdateDescriptorSets: descriptor j of the write goes to binding
\* dstBinding + j of the set (every binding holds one descriptor), as far as
\* the set has bindings; a binding the write does not reach stays unwritten.
UpdatedSet(bindings, w) ==
    [i \in 1..Len(bindings) |->
       LET j == bindings[i].binding - w.dstBinding + 1 IN
       IF j \in 1..w.descriptorCount THEN w.pBufferInfo[j] ELSE "unwritten"]

\* The descriptors of the write that fall past the last binding of the set.
WriteOverrun(bindings, w) ==
    Cardinality({ j \in 1..w.descriptorCount :
                    ~\E i \in 1..Len(bindings) : bindings[i].binding = w.dstBinding + j - 1 })

\* Arguments::Arguments(kernel, resources).  Nothing in it compares
\* resources.size() with the number of bindings of the kernel's layout.
Arguments_ctor(a, k, resources) ==
    /\ pc = "idle" /\ ~arguments[a].live /\ kernels[k].live
    /\ \E f \in ArgumentsFaults :
         LET e == Arguments_throws(f)
             w == WriteDescriptorSet(resources)
         IN
         /\ arguments' = [arguments EXCEPT ![a] =
                            IF e = NoError
                            THEN [live |-> TRUE, kernel |-> k,
                                  poolSizes |-> << [type |-> STORAGE_BUFFER,
                                                    descriptorCount |-> Len(resources)] >>,
                                  maxSets |-> 1,
                                  write |-> w,
                                  set |-> UpdatedSet(kernels[k].bindings, w),
                                  overrun |-> WriteOverrun(kernels[k].bindings, w)]
                            ELSE @]
         /\ lastOp' = Returned("Arguments", a, IF f = "none" THEN VK_SUCCESS ELSE VK_ERROR, e)
    /\ UNCHANGED << contextVars, programs, kernels, running, cache, memoryTypes, memoryTypeMappable,
                    memoryTypeLocal, cb, queue, submitted, completed, discipline,
                    deviceLost, buffers, hostSrc, hostDst, hostOverrun, offloaded,
                    shadow, pc, xfer >>

\* Arguments::destroy(), lines 661-666.
Arguments_destroy(a) ==
    /\ pc = "idle" /\ arguments[a].live
    /\ arguments' = [arguments EXCEPT ![a].live = FALSE]
    /\ lastOp' = Returned("Arguments::destroy", ImplicitCB, VK_SUCCESS, NoError)
    /\ UNCHANGED << contextVars, programs, kernels, running, cache, memoryTypes,
                    memoryTypeMappable, memoryTypeLocal, cb, queue, submitted, completed,
                    discipline, deviceLost, buffers, hostSrc, hostDst, hostOverrun,
                    offloaded, shadow, pc, xfer >>

Min(a, b) == IF a < b THEN a ELSE b

\* vkCmdCopyBuffer executed with region {0, 0, n}: the bytes it moves.  A region
\* larger than either buffer is invalid usage: the device then moves the region
\* as far as the allocations reach, or only what both buffers hold.
CopyLengths(s, d, n) ==
    IF n <= s.byteSize /\ n <= d.byteSize THEN {n}
    ELSE { Min(n, Min(s.alloc, d.alloc)), Min(n, Min(s.byteSize, d.byteSize)) }

CopyInto(s, d, k) ==
    [d EXCEPT !.data = [i \in 1..Len(d.data) |-> IF i <= k THEN s.data[i] ELSE d.data[i]]]

(***************************************************************************)
(* The device running a dispatch: one invocation per workgroup, each with  *)
(* its global id.  A store of an invocation stays in `cache` until it is   *)
(* written back; a later load of the same element finds the stored value   *)
(* or the one still in memory, unless a memory dependency orders the two.  *)
(***************************************************************************)
\* The last command of kind `kind` among the first n commands, or "none".
RECURSIVE BoundAt(_, _, _)
BoundAt(cmds, n, kind) ==
    IF n = 0 THEN "none"
    ELSE IF cmds[n][1] = kind THEN cmds[n][2]
    ELSE BoundAt(cmds, n - 1, kind)

\* vkCmdDispatch(x, y, z) of batch `sub`, with the pipeline and the descriptor
\* set bound by the commands before it.
Launch(sub, cmds, n) ==
    LET k == BoundAt(cmds, n - 1, "vkCmdBindPipeline")
        a == BoundAt(cmds, n - 1, "vkCmdBindDescriptorSets")
    IN
    IF k \in KernelIds /\ a \in ArgumentsIds /\ kernels[k].live /\ arguments[a].live
       /\ kernels[k].entry \in EntryPoints
    THEN { [sub |-> sub, cmd |-> n, entry |-> kernels[k].entry, set |-> arguments[a].set,
            gid |-> g] : g \in 0..(cmds[n][2] * cmds[n][3] * cmds[n][4] - 1) }
    ELSE {}

\* Element i (from 0) of the buffer behind slot s of a descriptor set exists.
Addressable(set, s, i) ==
    /\ s + 1 \in 1..Len(set)
    /\ set[s + 1] \in BufIds
    /\ buffers[set[s + 1]].live
    /\ i + 1 \in 1..Len(buffers[set[s + 1]].data)

\* What a load of that element may return.
Loads(set, s, i) ==
    {buffers[set[s + 1]].data[i + 1]}
       \cup { c.val : c \in { c \in cache : c.buf = set[s + 1] /\ c.idx = i + 1 } }

Store(set, s, i, v) == [buf |-> set[s + 1], idx |-> i + 1, val |-> v]

\* doubleMe.cl, lines 1-11, and comp: the stores one invocation may make.  An
\* access through a slot or to an element that does not exist is undefined; the
\* invocation is then taken to store nothing (Faulting tells the case apart).
Faulting(inv) ==
    \/ ~Addressable(inv.set, 0, inv.gid) /\ inv.entry \in {"doubleMe", "tripleMe"}
    \/ inv.entry = "comp" /\ ~Addressable(inv.set, 1, 0)
    \/ inv.entry = "comp" /\ Addressable(inv.set, 1, 0)
          /\ \E n \in Loads(inv.set, 1, 0) : inv.gid < n /\ ~Addressable(inv.set, 0, inv.gid)

ShaderStores(inv) ==
    CASE inv.entry = "doubleMe" /\ Addressable(inv.set, 0, inv.gid) ->
           { {Store(inv.set, 0, inv.gid, v * 2)} : v \in Loads(inv.set, 0, inv.gid) }
      [] inv.entry = "tripleMe" /\ Addressable(inv.set, 0, inv.gid) ->
           { {Store(inv.set, 0, inv.gid, v * 3)} : v \in Loads(inv.set, 0, inv.gid) }
      [] inv.entry = "comp" /\ Addressable(inv.set, 1, 0) ->
           UNION { IF inv.gid < n /\ Addressable(inv.set, 0, inv.gid)
                   THEN { {Store(inv.set, 0, inv.gid, v + 3)} : v \in Loads(inv.set, 0, inv.gid) }
                   ELSE { {} } : n \in Loads(inv.set, 1, 0) }
      [] OTHER -> { {} }

\* The cache after the stores `st`: a location holds its newest store.
Cached(c, st) ==
    { x \in c : ~\E y \in st : y.buf = x.buf /\ y.idx = x.idx } \cup st

\* Memory after every store in `c` has been written back.
WrittenBack(bufs, c) ==
    [b \in BufIds |->
       [bufs[b] EXCEPT !.data =
          [i \in 1..Len(bufs[b].data) |->
             IF \E x \in c : x.buf = b /\ x.idx = i
             THEN (CHOOSE x \in c : x.buf = b /\ x.idx = i).val
             ELSE bufs[b].data[i]]]]

\* The buffers after the device has executed one command.
ExecOutcomes(cmd, bufs) ==
    IF cmd[1] = "vkCmdCopyBuffer" /\ bufs[cmd[2]].live /\ bufs[cmd[3]].live
    THEN { [bufs EXCEPT ![cmd[3]] = CopyInto(bufs[cmd[2]], bufs[cmd[3]], k)] :
             k \in CopyLengths(bufs[cmd[2]], bufs[cmd[3]], cmd[4]) }
    ELSE { bufs }

RemoveAt(q, i) == [j \in 1..(Len(q) - 1) |-> IF j < i THEN q[j] ELSE q[j + 1]]

\* vkCmdPipelineBarrier(ALL_COMMANDS, ALL_COMMANDS, 0, 0 memory barriers), lines
\* 402-407: an execution dependency.  The commands after it start only when the
\* invocations of every earlier command have finished; with no memory barrier in
\* the call, nothing is written back on its account.
PipelineBarrier(sub) == ~\E inv \in running : inv.sub <= sub

\* The device executes the next command of a batch in the queue.  A dispatch
\* launches its invocations and the device goes on to the next command.
DeviceExecute(i) ==
    /\ i \in 1..Len(queue)
    /\ ~queue[i].freed
    /\ queue[i].next <= Len(queue[i].cmds)
    /\ queue[i].cmds[queue[i].next][1] = "vkCmdPipelineBarrier" => PipelineBarrier(queue[i].sub)
    /\ \E b \in ExecOutcomes(queue[i].cmds[queue[i].next], buffers) : buffers' = b
    /\ running' = IF queue[i].cmds[queue[i].next][1] = "vkCmdDispatch"
                  THEN running \cup Launch(queue[i].sub, queue[i].cmds, queue[i].next)
                  ELSE running
    /\ queue' = [queue EXCEPT ![i].next = @ + 1]
    /\ UNCHANGED << contextVars, programs, kernels, arguments, cache, memoryTypes, memoryTypeMappable,
                    memoryTypeLocal, cb, submitted,
                    completed, discipline, deviceLost, hostSrc, hostDst, hostOverrun,
                    offloaded, shadow, pc, xfer, lastOp >>

\* One invocation runs: it loads, computes and stores.  An invocation that
\* reaches through a slot or to an element that does not exist stores nothing,
\* or takes the device down with everything in its queue.
InvocationRun ==
    /\ \E inv \in running :
         \E lost \in IF Faulting(inv) THEN BOOLEAN ELSE {FALSE} :
            /\ running' = IF lost THEN {} ELSE running \ {inv}
            /\ queue' = IF lost THEN << >> ELSE queue
            /\ deviceLost' = (deviceLost \/ lost)
            /\ \E st \in ShaderStores(inv) : cache' = Cached(cache, st)
    /\ UNCHANGED << contextVars, programs, kernels, arguments, memoryTypes, memoryTypeMappable, memoryTypeLocal,
                    cb, submitted, completed, discipline, buffers,
                    hostSrc, hostDst, hostOverrun, offloaded, shadow, pc, xfer, lastOp >>

\* The device writes one cached store back to memory, whenever it likes.
DeviceWriteback ==
    /\ \E x \in cache :
         /\ cache' = cache \ {x}
         /\ buffers' = WrittenBack(buffers, {x})
    /\ UNCHANGED << contextVars, programs, kernels, arguments, running, memoryTypes, memoryTypeMappable,
                    memoryTypeLocal, cb, queue, submitted, completed, discipline,
                    deviceLost, hostSrc, hostDst, hostOverrun, offloaded, shadow, pc,
                    xfer, lastOp >>

\* A batch whose commands have all executed and whose invocations have all run
\* completes: its command buffer leaves Pending and is Executable again, and
\* what the device wrote is in memory for the host that waits for the queue.
DeviceComplete(i) ==
    /\ i \in 1..Len(queue)
    /\ ~queue[i].freed
    /\ queue[i].next > Len(queue[i].cmds)
    /\ ~\E inv \in running : inv.sub = queue[i].sub
    /\ queue' = RemoveAt(queue, i)
    /\ completed' = Append(completed, queue[i].sub)
    /\ cb' = [cb EXCEPT ![queue[i].cb].state = IF @ = "Pending" THEN "Executable" ELSE @]
    /\ buffers' = WrittenBack(buffers, cache)
    /\ cache' = {}
    /\ UNCHANGED << contextVars, programs, kernels, arguments, running, memoryTypes, memoryTypeMappable,
                    memoryTypeLocal, submitted,
                    discipline, deviceLost, hostSrc, hostDst, hostOverrun,
                    offloaded, shadow, pc, xfer, lastOp >>

\* A batch whose command buffer was freed while it was in the queue: the device
\* reads freed memory.  It may finish the batch all the same, or be lost with
\* everything in its queue.
DeviceFreedBatch(i) ==
    /\ i \in 1..Len(queue)
    /\ queue[i].freed
    /\ \/ /\ queue' = RemoveAt(queue, i)
          /\ completed' = Append(completed, queue[i].sub)
          /\ UNCHANGED deviceLost
       \/ /\ queue' = << >>
          /\ deviceLost' = TRUE
          /\ UNCHANGED completed
    /\ UNCHANGED << contextVars, kernelVars, memoryTypes, memoryTypeMappable, memoryTypeLocal, cb, submitted,
                    discipline, buffers, hostSrc, hostDst, hostOverrun, offloaded,
                    shadow, pc, xfer, lastOp >>

DeviceNext == \E i \in 1..MaxSubmits : DeviceExecute(i) \/ DeviceComplete(i) \/ DeviceFreedBatch(i)

(***************************************************************************)
(* Buffer                                                                  *)
(***************************************************************************)
NoBuffer == [live |-> FALSE, mappable |-> FALSE, memType |-> -1, byteSize |-> 0,
             alloc |-> 0, data |-> << >>, mapped |-> FALSE]
NoXfer   == [buf |-> "none"]
NoOp     == Returned("none", ImplicitCB, VK_SUCCESS, NoError)

\* A faulty variant: the two indices taken the other way round.
BufferMemoryType_swapped(mappable) == IF mappable THEN memoryTypeLocal ELSE memoryTypeMappable
\* Buffer::Buffer, line 442: the memory type the allocation is made from.
BufferMemoryType(mappable) == IF mappable THEN memoryTypeMappable ELSE memoryTypeLocal

\* Buffer::Buffer, lines 419-450: the error it throws, if any.
Buffer_throws(f) ==
    FirstThrow(<< ThrowUnless(R(f, "vkCreateBuffer"), VKRTL_ERROR_CREATE_BUFFER),
                  ThrowUnless(R(f, "vkAllocateMemory"), VKRTL_ERROR_MALLOC),
                  ThrowUnless(R(f, "vkBindBufferMemory"), VKRTL_ERROR_MALLOC) >>)

\* Buffer::Buffer, lines 431-448: the driver calls it makes, with the size or the
\* size and memory type each is given and its result, up to the first one that
\* makes it throw.  The driver answers vkGetBufferMemoryRequirements with
\* `alloc`.
Buffer_calls(f, byteSize, mappable, alloc) ==
    LET steps == << << "vkCreateBuffer", byteSize, R(f, "vkCreateBuffer") >>,
                    << "vkGetBufferMemoryRequirements", alloc, VK_SUCCESS >>,
                    << "vkAllocateMemory", alloc, BufferMemoryType(mappable),
                       R(f, "vkAllocateMemory") >>,
                    << "vkBindBufferMemory", 0, R(f, "vkBindBufferMemory") >> >>
        failed == { i \in 1..Len(steps) : steps[i][Len(steps[i])] # VK_SUCCESS }
    IN SubSeq(steps, 1, IF failed = {} THEN Len(steps)
                        ELSE CHOOSE i \in failed : \A j \in failed : i <= j)

\* Buffer::Buffer has returned or thrown: what it was called with and the
\* driver calls it made.
BufferReturned(f, byteSize, mappable, alloc) ==
    [op |-> "Buffer", obj |-> ImplicitCB, vk |-> IF f = "none" THEN VK_SUCCESS ELSE VK_ERROR,
     err |-> Buffer_throws(f), byteSize |-> byteSize, mappable |-> mappable,
     calls |-> Buffer_calls(f, byteSize, mappable, alloc)]

\* The Buffer a successful Buffer::Buffer(device, byteSize, mappable) builds, the
\* driver asking for `alloc` bytes (memoryRequirements.size) and the fresh
\* memory holding `init`.
NewBuffer(byteSize, mappable, alloc, init) ==
    [live |-> TRUE, mappable |-> mappable, memType |-> BufferMemoryType(mappable),
     byteSize |-> byteSize, alloc |-> alloc, data |-> init, mapped |-> FALSE]

HostVisible(b) ==
    /\ b.memType \in 0..(Len(memoryTypes) - 1)
    /\ HOST_VISIBLE \in memoryTypes[b.memType + 1]

\* Buffer::map, line 520: vkMapMemory(device, memory, 0, VK_WHOLE_SIZE, ...): the
\* window of the allocation the returned pointer covers.
MapWindow(b) == [offset |-> 0, size |-> b.alloc - 0]

\* What the host reads through the pointer map() returned.
MapView(b) == LET w == MapWindow(b) IN [i \in 1..w.size |-> b.data[w.offset + i]]

\* The memory after the host stored `bytes` at the start of the mapped window.
MapStore(b, bytes) ==
    LET w == MapWindow(b) IN
    [b EXCEPT !.data = [i \in 1..Len(b.data) |->
                          IF i > w.offset /\ i - w.offset <= Min(Len(bytes), w.size)
                          THEN bytes[i - w.offset] ELSE b.data[i]]]

\* A faulty variant: unmapping wipes the memory.
Buffer_unmap_clears(b) == [b EXCEPT !.mapped = FALSE, !.data = [i \in 1..Len(b.data) |-> 0]]
\* Buffer::unmap, lines 514-516: vkUnmapMemory releases the pointer only.
Buffer_unmap_effect(b) == [b EXCEPT !.mapped = FALSE]

\* Fresh device memory: its content is whatever the allocation held before.
FreshMemory(n) == { [i \in 1..n |-> v] : v \in Byte }

\* Buffer::Buffer(device, byteSize, mappable), lines 419-450.
Buffer_ctor(b, byteSize, mappable) ==
    /\ pc = "idle" /\ ~buffers[b].live
    /\ \E f \in {"none", "vkCreateBuffer", "vkAllocateMemory", "vkBindBufferMemory"},
          pad \in 0..MaxPad :
         \E init \in FreshMemory(byteSize + pad) :
            /\ lastOp' = BufferReturned(f, byteSize, mappable, byteSize + pad)
            /\ buffers' = IF Buffer_throws(f) = NoError
                          THEN [buffers EXCEPT ![b] = NewBuffer(byteSize, mappable, byteSize + pad, init)]
                          ELSE buffers
    /\ UNCHANGED << contextVars, kernelVars, memoryTypes, memoryTypeMappable, memoryTypeLocal, cb, queue, submitted,
                    completed, discipline, deviceLost, hostSrc, hostDst, hostOverrun,
                    offloaded, shadow, pc, xfer >>

\* Buffer::destroy(), lines 503-512.
Buffer_destroy(b) ==
    /\ pc = "idle" /\ buffers[b].live
    /\ buffers' = [buffers EXCEPT ![b] = NoBuffer]
    /\ shadow' = << >>
    /\ lastOp' = Returned("Buffer::destroy", ImplicitCB, VK_SUCCESS, NoError)
    /\ UNCHANGED << contextVars, kernelVars, memoryTypes, memoryTypeMappable, memoryTypeLocal, cb, queue, submitted,
                    completed, discipline, deviceLost, hostSrc, hostDst, hostOverrun,
                    offloaded, pc, xfer >>

\* Buffer::map(), lines 518-524, on memory of a host-visible type.
Buffer_map(b) ==
    /\ pc = "idle" /\ buffers[b].live /\ ~buffers[b].mapped
    /\ HostVisible(buffers[b])
    /\ \E r \in VkResults :
         /\ lastOp' = Returned("map", ImplicitCB, r, ThrowUnless(r, VKRTL_ERROR_MAP))
         /\ buffers' = IF r = VK_SUCCESS THEN [buffers EXCEPT ![b].mapped = TRUE] ELSE buffers
    /\ UNCHANGED << contextVars, kernelVars, memoryTypes, memoryTypeMappable, memoryTypeLocal, cb, queue, submitted,
                    completed, discipline, deviceLost, hostSrc, hostDst, hostOverrun,
                    offloaded, shadow, pc, xfer >>

\* The caller stores a pattern through the pointer map() returned, over the
\* whole mapped window.
Host_write(b) ==
    /\ pc = "idle" /\ buffers[b].live /\ buffers[b].mapped
    /\ \E pattern \in [1..MapWindow(buffers[b]).size -> Byte] :
         /\ buffers' = [buffers EXCEPT ![b] = MapStore(@, pattern)]
         /\ shadow' = pattern
    /\ lastOp' = Returned("write", ImplicitCB, VK_SUCCESS, NoError)
    /\ UNCHANGED << contextVars, kernelVars, memoryTypes, memoryTypeMappable, memoryTypeLocal, cb, queue, submitted,
                    completed, discipline, deviceLost, hostSrc, hostDst, hostOverrun,
                    offloaded, pc, xfer >>

\* Buffer::unmap(), lines 514-516.
Buffer_unmap(b) ==
    /\ pc = "idle" /\ buffers[b].live /\ buffers[b].mapped
    /\ buffers' = [buffers EXCEPT ![b] = Buffer_unmap_effect(@)]
    /\ lastOp' = Returned("unmap", ImplicitCB, VK_SUCCESS, NoError)
    /\ UNCHANGED << contextVars, kernelVars, memoryTypes, memoryTypeMappable, memoryTypeLocal, cb, queue, submitted,
                    completed, discipline, deviceLost, hostSrc, hostDst, hostOverrun,
                    offloaded, shadow, pc, xfer >>

(***************************************************************************)
(* Buffer::inload and Buffer::offload.  Each is one call of the host       *)
(* thread that blocks in Device::wait: a first step runs it up to the      *)
(* submit, a second step is its return from the wait.                      *)
(***************************************************************************)
\* Lines 469 and 486: Buffer mappable(*this, memoryRequirements.size,
\* memoryTypeMappable).  The third parameter of Buffer::Buffer is `bool
\* mappable`; the int index converts to true exactly when it is not 0.
StagingIsMappable == memoryTypeMappable # 0

TransferFaults ==
    {"none", "vkCreateBuffer", "vkAllocateMemory", "vkBindBufferMemory", "vkMapMemory",
     "vkBeginCommandBuffer", "vkEndCommandBuffer", "vkQueueSubmit"}

\* vkMapMemory on memory that is not of a host-visible type is invalid usage:
\* the driver rejects it, or hands back a pointer that is not the buffer's memory.
MapOutcomes(b) == IF HostVisible(b) THEN {"mapped"} ELSE {"rejected", "unbacked"}

\* The staging Buffer of a transfer that threw: the local object is gone, its
\* handle and memory stay allocated and nothing refers to them any more.
Leaked == [NoBuffer EXCEPT !.live = TRUE]

\* The implicit command buffer after begin(); enqueueCopy(src, dst, n).
ImplicitRecorded(src, dst, n) ==
    [vkBeginCommandBuffer(cb[ImplicitCB], VK_SUCCESS) EXCEPT
        !.cmds = << CmdCopyBuffer(src, dst, n) >>]

\* begin .. submit of the implicit command buffer (lines 471-474, 490-493):
\* the command buffer it leaves behind when the driver call f fails.
ImplicitAfter(rec, f) ==
    CASE f = "vkBeginCommandBuffer" -> cb[ImplicitCB]
      [] f = "vkEndCommandBuffer"   -> vkEndCommandBuffer(rec, VK_ERROR)
      [] f = "vkQueueSubmit"        -> vkEndCommandBuffer(rec, VK_SUCCESS)
      [] OTHER -> [vkEndCommandBuffer(rec, VK_SUCCESS) EXCEPT !.state = "Pending"]

TransferThrows(f, mapThrows) ==
    FirstThrow(<< Buffer_throws(f),
                  IF mapThrows THEN VKRTL_ERROR_MAP ELSE NoError,
                  begin_throws(R(f, "vkBeginCommandBuffer")),
                  end_throws(R(f, "vkEndCommandBuffer")),
                  submit_throws(R(f, "vkQueueSubmit")) >>)

\* Buffer::offload(hostPtr), lines 482-489 and on to the submit at 493.
Buffer_offload_call(b) ==
    /\ pc = "idle" /\ buffers[b].live
    /\ cb[ImplicitCB].state # "Pending"
    /\ Len(submitted) < MaxSubmits
    /\ \E f \in TransferFaults,
          m \in MapOutcomes(NewBuffer(buffers[b].alloc, StagingIsMappable, buffers[b].alloc, << >>)) :
         LET n         == buffers[b].alloc
             mapThrows == m = "rejected" \/ (m = "mapped" /\ f = "vkMapMemory")
             e         == TransferThrows(f, mapThrows)
             rec       == ImplicitRecorded("staging", b, n)
         IN
         \* the host bytes and the fresh memory matter only to a call that goes through
         \E src  \in IF e = NoError THEN [1..buffers[b].byteSize -> Byte] ELSE {<< >>},
            over \in IF e = NoError THEN [1..(n - buffers[b].byteSize) -> Byte] ELSE {<< >>},
            init \in IF e = NoError /\ m = "unbacked" THEN FreshMemory(n) ELSE {[i \in 1..n |-> 0]} :
            LET stg0 == NewBuffer(n, StagingIsMappable, n, init)
                stg1 == IF m = "mapped"
                        THEN Buffer_unmap_effect(MapStore([stg0 EXCEPT !.mapped = TRUE], src \o over))
                        ELSE stg0
            IN
            /\ hostSrc' = IF e = NoError THEN src ELSE << >>
            /\ offloaded' = << >>
            /\ buffers' = IF Buffer_throws(f) # NoError THEN buffers
                          ELSE [buffers EXCEPT !["staging"] = IF e = NoError THEN stg1 ELSE Leaked]
            /\ cb' = IF Buffer_throws(f) # NoError \/ mapThrows THEN cb
                     ELSE [cb EXCEPT ![ImplicitCB] = ImplicitAfter(rec, f)]
            /\ IF e = NoError
               THEN /\ queue' = vkQueueSubmit(queue, Len(submitted) + 1, ImplicitCB, rec.cmds)
                    /\ submitted' = Append(submitted, ImplicitCB)
                    /\ discipline' = SubmitDiscipline(discipline)
                    /\ pc' = "offload_wait"
                    /\ xfer' = [buf |-> b]
                    /\ UNCHANGED lastOp
               ELSE /\ lastOp' = Returned("offload", ImplicitCB, VK_ERROR, e)
                    /\ UNCHANGED << queue, submitted, discipline, pc, xfer >>
    /\ UNCHANGED << contextVars, kernelVars, memoryTypes, memoryTypeMappable, memoryTypeLocal, completed,
                    deviceLost, hostDst, hostOverrun, shadow >>

\* Buffer::offload, lines 494-496: wait() returns, the staging buffer is destroyed.
Buffer_offload_return ==
    /\ pc = "offload_wait"
    /\ \E r \in QueueResults :
         /\ r = VK_SUCCESS => vkQueueWaitIdle(queue)
         /\ lastOp' = Returned("offload", ImplicitCB, r, wait_throws(r))
         /\ discipline' = IF r = VK_SUCCESS THEN WaitDiscipline(discipline) ELSE discipline
         /\ buffers' = IF r = VK_SUCCESS THEN [buffers EXCEPT !["staging"] = NoBuffer] ELSE buffers
         /\ offloaded' = IF r = VK_SUCCESS THEN hostSrc ELSE << >>
    /\ hostSrc' = << >>
    /\ pc' = "idle"
    /\ xfer' = NoXfer
    /\ UNCHANGED << contextVars, kernelVars, memoryTypes, memoryTypeMappable, memoryTypeLocal, cb, queue, submitted,
                    completed, deviceLost, hostDst, hostOverrun, shadow >>

\* Buffer::inload(hostPtr), lines 465-474: up to the submit.
Buffer_inload_call(b) ==
    /\ pc = "idle" /\ buffers[b].live
    /\ cb[ImplicitCB].state # "Pending"
    /\ Len(submitted) < MaxSubmits
    /\ \E f \in TransferFaults \ {"vkMapMemory"} :
         \E init \in FreshMemory(buffers[b].alloc) :
         LET n    == buffers[b].alloc
             stg0 == NewBuffer(n, StagingIsMappable, n, init)
             rec  == ImplicitRecorded(b, "staging", n)
             e    == TransferThrows(f, FALSE)
         IN
         /\ buffers' = IF Buffer_throws(f) # NoError THEN buffers
                       ELSE [buffers EXCEPT !["staging"] = IF e = NoError THEN stg0 ELSE Leaked]
         /\ cb' = IF Buffer_throws(f) # NoError THEN cb
                  ELSE [cb EXCEPT ![ImplicitCB] = ImplicitAfter(rec, f)]
         /\ IF e = NoError
            THEN /\ queue' = vkQueueSubmit(queue, Len(submitted) + 1, ImplicitCB, rec.cmds)
                 /\ submitted' = Append(submitted, ImplicitCB)
                 /\ discipline' = SubmitDiscipline(discipline)
                 /\ pc' = "inload_wait"
                 /\ xfer' = [buf |-> b]
                 /\ UNCHANGED lastOp
            ELSE /\ lastOp' = Returned("inload", ImplicitCB, VK_ERROR, e)
                 /\ UNCHANGED << queue, submitted, discipline, pc, xfer >>
    /\ hostDst' = << >>
    /\ hostOverrun' = 0
    /\ UNCHANGED << contextVars, kernelVars, memoryTypes, memoryTypeMappable, memoryTypeLocal, completed,
                    deviceLost, hostSrc, offloaded, shadow >>

\* Buffer::inload, lines 475-479: wait() returns; memcpy(hostPtr, mappable.map(),
\* memoryRequirements.size) into the caller's array of byteSize bytes; unmap;
\* destroy.
Buffer_inload_return ==
    /\ pc = "inload_wait"
    /\ \E r \in QueueResults, rm \in VkResults :
         /\ r = VK_SUCCESS => vkQueueWaitIdle(queue)
         /\ discipline' = IF r = VK_SUCCESS THEN WaitDiscipline(discipline) ELSE discipline
         /\ IF r # VK_SUCCESS
            THEN /\ lastOp' = Returned("inload", ImplicitCB, r, wait_throws(r))
                 /\ UNCHANGED << buffers, hostDst, hostOverrun >>
            ELSE LET stg == buffers["staging"]
                     b   == buffers[xfer.buf]
                 IN \E m \in MapOutcomes(stg) :
                    IF m = "rejected" \/ (m = "mapped" /\ rm # VK_SUCCESS)
                    THEN /\ lastOp' = Returned("inload", ImplicitCB, VK_ERROR, VKRTL_ERROR_MAP)
                         /\ buffers' = [buffers EXCEPT !["staging"] = Leaked]
                         /\ UNCHANGED << hostDst, hostOverrun >>
                    ELSE /\ lastOp' = Returned("inload", ImplicitCB, VK_SUCCESS, NoError)
                         /\ buffers' = [buffers EXCEPT !["staging"] = NoBuffer]
                         /\ hostOverrun' = b.alloc - b.byteSize
                         /\ IF m = "mapped"
                            THEN hostDst' = SubSeq(MapView(stg), 1, b.byteSize)
                            ELSE hostDst' \in [1..b.byteSize -> Byte]
    /\ pc' = "idle"
    /\ xfer' = NoXfer
    /\ UNCHANGED << contextVars, kernelVars, memoryTypes, memoryTypeMappable, memoryTypeLocal, cb, queue, submitted,
                    completed, deviceLost, hostSrc, offloaded, shadow >>

(***************************************************************************)
(* Object (the Context) and Device construction                            *)
(***************************************************************************)
VKRTL_ERROR_CREATE_INSTANCE        == "VKRTL_ERROR_CREATE_INSTANCE"
VKRTL_ERROR_CREATE_REPORT_CALLBACK == "VKRTL_ERROR_CREATE_REPORT_CALLBACK"
VKRTL_ERROR_DEVICES                == "VKRTL_ERROR_DEVICES"
VKRTL_ERROR_COMPUTE_QUEUE          == "VKRTL_ERROR_COMPUTE_QUEUE"

\* vkrtlib.h, enum ModeOptions.
VKRTL_none    == "VKRTL_none"
VKRTL_verbose == "VKRTL_verbose"
VKRTL_profile == "VKRTL_profile"
VKRTL_all     == "VKRTL_all"
ModeOptions   == {VKRTL_none, VKRTL_verbose, VKRTL_profile, VKRTL_all}

ObjectIds == {"A", "B"}

\* Object::Object, line 71, and the extension named at line 119.
validationLayers == {"VK_LAYER_LUNARG_standard_validation"}
VK_EXT_DEBUG_REPORT_EXTENSION_NAME == "VK_EXT_debug_report"

VK_QUEUE_COMPUTE_BIT  == "VK_QUEUE_COMPUTE_BIT"
VK_QUEUE_TRANSFER_BIT == "VK_QUEUE_TRANSFER_BIT"

\* Object::Object, lines 51-52.
Verbose(mode) == mode = VKRTL_verbose \/ mode = VKRTL_all
Profile(mode) == mode = VKRTL_profile \/ mode = VKRTL_all

\* Object::Object, lines 96-109: every layer of validationLayers is among the
\* instance layers.
layersAvailable(layers) == \A layerName \in validationLayers : layerName \in layers

\* Object::Object, lines 111-122: the layers and extensions of createInfo.
InstanceCreateInfo(verbose, layers) ==
    [enabledLayers     |-> IF layersAvailable(layers) THEN validationLayers ELSE {},
     enabledExtensions |-> IF layersAvailable(layers) /\ verbose
                           THEN {VK_EXT_DEBUG_REPORT_EXTENSION_NAME} ELSE {}]

\* A driver call made for Object obj: the function, the physical device it is
\* about (0 if none), the queue family and queue count it names (-1, 0 if
\* none) and what it returned.
Call(fn, obj, pd, family, count, r) ==
    [fn |-> fn, obj |-> obj, pd |-> pd, family |-> family, count |-> count, vk |-> r]

\* A faulty variant: the loop has no break and ends on the last compute family.
RECURSIVE computeQueueFamily_last(_, _, _)
computeQueueFamily_last(families, i, found) ==
    IF i >= Len(families) THEN found
    ELSE computeQueueFamily_last(families, i + 1,
                                 IF VK_QUEUE_COMPUTE_BIT \in families[i + 1] THEN i ELSE found)
\* Device::Device, lines 200-206: the loop over the queue families, which stops
\* at the first one with VK_QUEUE_COMPUTE_BIT; `found` starts as -1 (vkrtlib.h 102).
RECURSIVE computeQueueFamily(_, _, _)
computeQueueFamily(families, i, found) ==
    IF i >= Len(families) THEN found
    ELSE IF VK_QUEUE_COMPUTE_BIT \in families[i + 1] THEN i
    ELSE computeQueueFamily(families, i + 1, found)

\* Device::Device, lines 209-227 and 262: the error it throws, if any.
Device_throws(families, f) ==
    FirstThrow(<< IF computeQueueFamily(families, 0, -1) = -1
                  THEN VKRTL_ERROR_COMPUTE_QUEUE ELSE NoError,
                  ThrowUnless(R(f, "vkCreateDevice"), VKRTL_ERROR_DEVICES),
                  sharedConstructor_throws(f) >>)

\* Device::Device: the driver calls it makes for physical device k, up to the
\* first one that makes it throw.
Device_calls(obj, k, families, f) ==
    LET family == computeQueueFamily(families, 0, -1)
        steps  == << Call("vkCreateDevice", obj, k, family, 1, R(f, "vkCreateDevice")),
                     Call("vkGetDeviceQueue", obj, k, family, 1, VK_SUCCESS),
                     Call("vkCreateCommandPool", obj, k, family, 0, R(f, "vkCreateCommandPool")),
                     Call("vkAllocateCommandBuffers", obj, k, -1, 1,
                          R(f, "vkAllocateCommandBuffers")) >>
        made   == IF \E i \in 1..Len(steps) : steps[i].vk # VK_SUCCESS
                  THEN CHOOSE i \in 1..Len(steps) :
                         steps[i].vk # VK_SUCCESS /\ \A j \in 1..(i - 1) : steps[j].vk = VK_SUCCESS
                  ELSE Len(steps)
    IN
    << Call("vkGetPhysicalDeviceQueueFamilyProperties", obj, k, -1, 0, VK_SUCCESS) >>
      \o (IF family = -1 THEN << >> ELSE SubSeq(steps, 1, made))

\* The Device a successful Device::Device(physicalDevices[k]) builds.
NewDevice(k, families) ==
    [physicalDevice |-> k, computeQueueFamily |-> computeQueueFamily(families, 0, -1),
     device |-> "created", commandPool |-> "created", commandBuffer |-> "created"]

\* Object::Object, lines 163-165: the loop that constructs a Device for each
\* physical device from k on and pushes it to `devices`; a throw of Device::Device
\* leaves the loop.  `fd` is the device at which the driver rejects call `f`.
RECURSIVE BuildDevices(_, _, _, _, _, _)
BuildDevices(obj, pds, k, f, fd, acc) ==
    IF k > Len(pds) THEN acc
    ELSE LET fk == IF fd = k THEN f ELSE "none"
             e  == Device_throws(pds[k], fk)
             cs == acc.calls \o Device_calls(obj, k, pds[k], fk)
         IN IF e # NoError
            THEN [devices |-> acc.devices, calls |-> cs, err |-> e]
            ELSE BuildDevices(obj, pds, k + 1, f, fd,
                              [devices |-> Append(acc.devices, NewDevice(k, pds[k])),
                               calls |-> cs, err |-> NoError])

NoObject ==
    [state |-> "none", mode |-> VKRTL_none, createInfo |-> InstanceCreateInfo(FALSE, {}),
     instance |-> "none", debugReportCallback |-> "none", devices |-> << >>,
     error |-> NoError]

ObjectFaults == {"none", "vkCreateInstance", "vkEnumeratePhysicalDevices(count)",
                 "vkEnumeratePhysicalDevices(handles)"}
DeviceFaults == {"vkCreateDevice", "vkCreateCommandPool", "vkAllocateCommandBuffers"}

\* vkGetInstanceProcAddr for a function of VK_EXT_debug_report: the loader
\* resolves it when the instance was created with the extension and returns
\* NULL when it was not.
ProcAddrs(createInfo) ==
    IF VK_EXT_DEBUG_REPORT_EXTENSION_NAME \in createInfo.enabledExtensions
    THEN {"resolved"} ELSE {"NULL"}

\* A faulty variant: the physical devices are asked for before the callback
\* entry point is looked at.
ObjectThrows_devicesFirst(eInstance, eCallback, eDevices) ==
    FirstThrow(<< eInstance, eDevices, eCallback >>)
\* Object::Object, lines 124-161: the throws before the Device loop, in the order
\* of the code.
ObjectThrows(eInstance, eCallback, eDevices) ==
    FirstThrow(<< eInstance, eCallback, eDevices >>)

\* Object::Object(mode), lines 49-168.
Object_ctor(obj, mode) ==
    /\ objects[obj].state = "none"
    /\ _verbose' = Verbose(mode)
    /\ _profile' = Profile(mode)
    /\ LET info == InstanceCreateInfo(Verbose(mode), instanceLayers) IN
       \E f \in ObjectFaults \cup DeviceFaults :
       \E fd \in IF f \in DeviceFaults THEN 1..Len(physicalDevices) ELSE {0},
          addr \in IF Verbose(mode) /\ f # "vkCreateInstance" THEN ProcAddrs(info) ELSE {"resolved"} :
       \E rcb \in IF Verbose(mode) /\ f # "vkCreateInstance" /\ addr = "resolved"
                  THEN VkResults ELSE {VK_SUCCESS} :
         LET rInstance == R(f, "vkCreateInstance")
             rCount    == R(f, "vkEnumeratePhysicalDevices(count)")
             rHandles  == R(f, "vkEnumeratePhysicalDevices(handles)")
             eInstance == ThrowUnless(rInstance, VKRTL_ERROR_CREATE_INSTANCE)
             eCallback == IF Verbose(mode) /\ addr = "NULL"
                          THEN VKRTL_ERROR_CREATE_REPORT_CALLBACK ELSE NoError
             eDevices  == IF rCount # VK_SUCCESS \/ Len(physicalDevices) = 0
                          THEN VKRTL_ERROR_DEVICES
                          ELSE ThrowUnless(rHandles, VKRTL_ERROR_DEVICES)
             early     == ObjectThrows(eInstance, eCallback, eDevices)
             cInstance == << Call("vkEnumerateInstanceLayerProperties", obj, 0, -1, 0, VK_SUCCESS),
                             Call("vkCreateInstance", obj, 0, -1, 0, rInstance) >>
             cCallback == IF ~Verbose(mode) THEN << >>
                          ELSE << Call("vkGetInstanceProcAddr(vkCreateDebugReportCallbackEXT)",
                                       obj, 0, -1, 0,
                                       IF addr = "NULL" THEN VK_ERROR ELSE VK_SUCCESS) >>
                               \o (IF addr = "NULL" THEN << >>
                                   ELSE << Call("vkCreateDebugReportCallbackEXT",
                                                obj, 0, -1, 0, rcb) >>)
             cDevices  == << Call("vkEnumeratePhysicalDevices(count)", obj, 0, -1, 0, rCount) >>
                            \o (IF rCount # VK_SUCCESS \/ Len(physicalDevices) = 0 THEN << >>
                                ELSE << Call("vkEnumeratePhysicalDevices(handles)",
                                             obj, 0, -1, 0, rHandles) >>)
             before    == CASE early = NoError   -> cInstance \o cCallback \o cDevices
                            [] early = eInstance -> cInstance
                            [] early = eCallback -> cInstance \o cCallback
                            [] OTHER             -> cInstance \o cCallback \o cDevices
             built     == IF early # NoError
                          THEN [devices |-> << >>, calls |-> before, err |-> early]
                          ELSE BuildDevices(obj, physicalDevices, 1, f, fd,
                                            [devices |-> << >>, calls |-> before,
                                             err |-> NoError])
             installed == Verbose(mode) /\ rInstance = VK_SUCCESS /\ addr = "resolved"
                          /\ rcb = VK_SUCCESS
                          /\ \E i \in 1..Len(built.calls) :
                                built.calls[i].fn = "vkCreateDebugReportCallbackEXT"
         IN
         /\ objects' = [objects EXCEPT ![obj] =
                          [state |-> IF built.err = NoError THEN "live" ELSE "failed",
                           mode |-> mode,
                           createInfo |-> info,
                           instance |-> IF rInstance = VK_SUCCESS THEN "created" ELSE "none",
                           debugReportCallback |-> IF installed THEN "installed" ELSE "none",
                           devices |-> built.devices,
                           error |-> built.err]]
         /\ calls' = calls \o built.calls
         /\ lastOp' = Returned("Object", ImplicitCB,
                               IF f = "none" THEN VK_SUCCESS ELSE VK_ERROR, built.err)
    /\ UNCHANGED << kernelVars, instanceLayers, physicalDevices, memoryTypes,
                    memoryTypeMappable, memoryTypeLocal, cb, queue, submitted, completed,
                    discipline, deviceLost, buffers, hostSrc, hostDst, hostOverrun,
                    offloaded, shadow, pc, xfer >>

\* Object::~Object, lines 170-176, with DestroyDebugReportCallbackEXT, lines
\* 38-46.  The test is on the global _verbose, as the last constructed Object
\* left it.
Object_dtor(obj) ==
    /\ objects[obj].state = "live"
    /\ \E addr \in IF _verbose THEN ProcAddrs(objects[obj].createInfo) ELSE {"resolved"} :
         LET cCallback ==
               IF ~_verbose THEN << >>
               ELSE << Call("vkGetInstanceProcAddr(vkDestroyDebugReportCallbackEXT)",
                            obj, 0, -1, 0, IF addr = "NULL" THEN VK_ERROR ELSE VK_SUCCESS) >>
                    \o (IF addr = "NULL" THEN << >>
                        ELSE << Call("vkDestroyDebugReportCallbackEXT", obj, 0, -1, 0,
                                     VK_SUCCESS) >>)
             uninstalled == _verbose /\ addr = "resolved"
         IN
         /\ calls' = calls \o cCallback
                        \o << Call("vkDestroyInstance", obj, 0, -1, 0, VK_SUCCESS) >>
         /\ objects' = [objects EXCEPT
                          ![obj].state = "destroyed",
                          ![obj].instance = "destroyed",
                          ![obj].debugReportCallback =
                              IF uninstalled /\ @ = "installed" THEN "uninstalled" ELSE @]
    /\ lastOp' = Returned("~Object", ImplicitCB, VK_SUCCESS, NoError)
    /\ UNCHANGED << kernelVars, instanceLayers, physicalDevices, _verbose, _profile,
                    memoryTypes, memoryTypeMappable, memoryTypeLocal, cb, queue, submitted,
                    completed, discipline, deviceLost, buffers, hostSrc, hostDst,
                    hostOverrun, offloaded, shadow, pc, xfer >>

\* Object::getDevice(), lines 182-184: devices[0].
getDevice(obj) == objects[obj].devices[1]

\* Device::destroy(), lines 318-324, on the Device getDevice() returned:
\* implicitCommandBuffer->destroy() (vkFreeCommandBuffers, then
\* vkDestroyCommandPool, lines 386-389), then vkDestroyDevice.
Device_destroy(obj) ==
    /\ pc = "idle" /\ objects[obj].state = "live"
    /\ getDevice(obj).device = "created"
    /\ LET k == getDevice(obj).physicalDevice IN
       calls' = calls \o << Call("vkFreeCommandBuffers", obj, k, -1, 1, VK_SUCCESS),
                            Call("vkDestroyCommandPool", obj, k, -1, 0, VK_SUCCESS),
                            Call("vkDestroyDevice", obj, k, -1, 0, VK_SUCCESS) >>
    /\ objects' = [objects EXCEPT ![obj].devices[1].commandBuffer = "destroyed",
                                  ![obj].devices[1].commandPool = "destroyed",
                                  ![obj].devices[1].device = "destroyed"]
    /\ cb' = [cb EXCEPT ![ImplicitCB] = NoCB]
    /\ queue' = [i \in 1..Len(queue) |->
                   IF queue[i].cb = ImplicitCB THEN [queue[i] EXCEPT !.freed = TRUE]
                   ELSE queue[i]]
    /\ lastOp' = Returned("Device::destroy", ImplicitCB, VK_SUCCESS, NoError)
    /\ UNCHANGED << kernelVars, instanceLayers, physicalDevices, _verbose, _profile,
                    memoryTypes, memoryTypeMappable, memoryTypeLocal, submitted,
                    completed, discipline, deviceLost, buffers, hostSrc, hostDst,
                    hostOverrun, offloaded, shadow, pc, xfer >>

\* The queue is empty, the host thread is in no call and no history is kept yet.
NothingSubmitted ==
    /\ queue = << >>
    /\ submitted = << >>
    /\ completed = << >>
    /\ discipline = "waited"
    /\ deviceLost = FALSE
    /\ hostSrc = << >>
    /\ hostDst = << >>
    /\ hostOverrun = 0
    /\ offloaded = << >>
    /\ pc = "idle"
    /\ xfer = NoXfer
    /\ lastOp = NoOp
    /\ running = {}
    /\ cache = {}

(***************************************************************************)
(* The state after Object::Object and Device::Device on a physical device  *)
(* with memory types `types`: both indices resolved, the implicit command  *)
(* buffer allocated, nothing submitted.                                    *)
(***************************************************************************)
DeviceFields(types) ==
    /\ memoryTypes = types
    /\ memoryTypeMappable = ScanMemoryTypes(types, 0, HOST_VISIBLE, -1)
    /\ memoryTypeLocal = ScanMemoryTypes(types, 0, DEVICE_LOCAL, -1)
    /\ NothingSubmitted

\* The specifications of a Device at work leave the Object that enumerated it
\* aside.
DeviceInit(types) ==
    /\ DeviceFields(types)
    /\ instanceLayers = {}
    /\ physicalDevices = << >>
    /\ _verbose = FALSE
    /\ _profile = FALSE
    /\ objects = [obj \in ObjectIds |-> NoObject]
    /\ calls = << >>

UnifiedDevice == << {HOST_VISIBLE, DEVICE_LOCAL} >>

\* No Kernel and no Arguments object constructed yet.
NoPrograms     == [p \in ProgramIds |-> NoProgram]
NoKernels      == [k \in KernelIds |-> NoKernel]

\* The examples' Program: Program prog(dev, "../shaders/<name>.spv"), the file
\* holding ExampleLength bytes.
ExampleLength == 4 * MaxWords
ExamplePrograms ==
    [p \in ProgramIds |->
       [live |-> TRUE, from |-> "file", length |-> ExampleLength,
        codeSize |-> fileCodeSize(ExampleLength), shaderModule |-> "created"]]
NoArgumentSets == [a \in ArgumentsIds |-> NoArguments]

\* The Device's implicit command buffer (line 323), and no user command buffer yet.
NoUserCmdBufs == [id \in CmdBufs |-> IF id = ImplicitCB THEN sharedConstructor ELSE NoCB]

\* A user command buffer as the examples build it: CommandBuffer(device, kernel,
\* arguments); dispatch(); barrier(); end().
ExampleCommandBuffer ==
    [live |-> TRUE, state |-> "Executable",
     cmds |-> ctor3_bindings("kn", "args") \o << CmdDispatch(1, 1, 1), CmdPipelineBarrier >>]

\* The examples' two Buffers, created and filled.
ExampleBuffers ==
    [b \in BufIds |->
       CASE b = "dl" -> NewBuffer(1, FALSE, 1, << 0 >>)
         [] b = "mp" -> NewBuffer(1, TRUE, 1, << 1 >>)
         [] OTHER    -> NoBuffer]

(***************************************************************************)
(* SpecRec: the caller creates, records, ends, submits and destroys one    *)
(* user command buffer, with every recording method; it destroys the       *)
(* buffer only when no submission of it is pending (4.7).                  *)
(***************************************************************************)
InitRec ==
    /\ DeviceInit(UnifiedDevice) /\ cb = NoUserCmdBufs /\ buffers = ExampleBuffers
    /\ kernels = NoKernels /\ arguments = NoArgumentSets /\ shadow = << >>
    /\ programs = NoPrograms

NextRec ==
    \/ CommandBuffer_ctor1(1)
    \/ \E k \in Kernels, a \in ArgumentSets : CommandBuffer_ctor3(1, k, a)
    \/ CommandBuffer_begin(1)
    \/ CommandBuffer_end(1)
    \/ Recording(1) /\ \E d \in DispatchDims : CommandBuffer_dispatch(1, d[1], d[2], d[3])
    \/ Recording(1) /\ CommandBuffer_barrier(1)
    \/ Recording(1) /\ \E k \in Kernels : Kernel_bindTo(k, 1)
    \/ Recording(1) /\ \E a \in ArgumentSets : Arguments_bindTo(a, 1)
    \/ Recording(1) /\ Buffer_enqueueCopy("mp", "dl", 1, 1)
    \/ cb[1].state # "Pending" /\ CommandBuffer_destroy(1)
    \/ Device_submit(1)
    \/ \E i \in 1..MaxSubmits : DeviceExecute(i)
    \/ \E i \in 1..MaxSubmits : DeviceComplete(i)

SpecRec == InitRec /\ [][NextRec]_vars

(***************************************************************************)
(* SpecQ: the caller holds command buffers built the way the examples      *)
(* build them and submits them to the one queue, waiting or not between    *)
(* submissions, and destroys them at any time.                             *)
(***************************************************************************)
InitQ ==
    /\ DeviceInit(UnifiedDevice)
    /\ cb = [id \in CmdBufs |-> IF id = ImplicitCB THEN sharedConstructor ELSE ExampleCommandBuffer]
    /\ buffers = ExampleBuffers
    /\ kernels = NoKernels /\ arguments = NoArgumentSets /\ shadow = << >>
    /\ programs = NoPrograms

NextQ ==
    \/ \E id \in UserCmdBufs : Device_submit(id)
    \/ Device_wait
    \/ \E id \in UserCmdBufs : CommandBuffer_destroy(id)
    \/ DeviceNext

SpecQ == InitQ /\ [][NextQ]_vars

\* The device, once it has work, keeps executing it.
FairSpecQ == SpecQ /\ WF_vars(DeviceNext)

(***************************************************************************)
(* SpecXfer: on any of the physical devices, the caller creates one        *)
(* device-local Buffer and moves host arrays in and out of it with         *)
(* offload() and inload().                                                 *)
(***************************************************************************)
InitXfer ==
    /\ \E types \in PhysicalDevices : DeviceInit(types)
    /\ cb = NoUserCmdBufs
    /\ buffers = [b \in BufIds |-> NoBuffer]
    /\ kernels = NoKernels /\ arguments = NoArgumentSets /\ shadow = << >>
    /\ programs = NoPrograms

NextXfer ==
    \/ \E n \in 1..MaxBytes : Buffer_ctor("dl", n, FALSE)
    \/ Buffer_offload_call("dl")
    \/ Buffer_offload_return
    \/ Buffer_inload_call("dl")
    \/ Buffer_inload_return
    \/ \E i \in 1..MaxSubmits : DeviceExecute(i)
    \/ \E i \in 1..MaxSubmits : DeviceComplete(i)

SpecXfer == InitXfer /\ [][NextXfer]_vars

(***************************************************************************)
(* SpecMap: the caller creates one mappable Buffer and maps it, writes     *)
(* through the pointer, unmaps it and destroys it, in any order the        *)
(* interface allows.                                                       *)
(***************************************************************************)
InitMap ==
    /\ \E types \in PhysicalDevices : DeviceInit(types)
    /\ cb = NoUserCmdBufs
    /\ buffers = [b \in BufIds |-> NoBuffer]
    /\ kernels = NoKernels /\ arguments = NoArgumentSets /\ shadow = << >>
    /\ programs = NoPrograms

NextMap ==
    \/ \E n \in 1..MaxBytes : Buffer_ctor("mp", n, TRUE)
    \/ Buffer_map("mp")
    \/ Host_write("mp")
    \/ Buffer_unmap("mp")
    \/ Buffer_destroy("mp")

SpecMap == InitMap /\ [][NextMap]_vars

(***************************************************************************)
(* SpecTriple: tripleMe.cc.  One mapped Buffer of MaxBytes elements, filled *)
(* by the host; kernels doubleMe and tripleMe of one Program, each with an *)
(* Arguments object naming that Buffer; command buffer 1 recorded as the   *)
(* test records it, command buffer 2 the same without the barrier between  *)
(* the two dispatches.  The caller submits and waits.                      *)
(***************************************************************************)
TripleMeKernels ==
    [k \in KernelIds |->
       CASE k = "kn1" -> NewKernel("prog", "doubleMe", << STORAGE_BUFFER >>)
         [] k = "kn2" -> NewKernel("prog", "tripleMe", << STORAGE_BUFFER >>)
         [] OTHER     -> NoKernel]

\* What a successful Arguments::Arguments(kernel, resources) builds.
NewArguments(k, bindings, resources) ==
    [live |-> TRUE, kernel |-> k,
     poolSizes |-> << [type |-> STORAGE_BUFFER, descriptorCount |-> Len(resources)] >>,
     maxSets |-> 1,
     write |-> WriteDescriptorSet(resources),
     set |-> UpdatedSet(bindings, WriteDescriptorSet(resources)),
     overrun |-> WriteOverrun(bindings, WriteDescriptorSet(resources))]

TripleMeArguments ==
    [a \in ArgumentsIds |->
       CASE a = "args1" -> NewArguments("kn1", TripleMeKernels["kn1"].bindings, << "mp" >>)
         [] a = "args2" -> NewArguments("kn2", TripleMeKernels["kn2"].bindings, << "mp" >>)
         [] OTHER       -> NoArguments]

\* tripleMe.cc, lines 32-48: what the test records, and the same recording
\* with the first barrier() left out.
TripleMeCommands(n, withBarrier) ==
    << CmdBindPipeline("kn1"), CmdBindDescriptorSets("args1"), CmdDispatch(n, 1, 1) >>
      \o (IF withBarrier THEN << CmdPipelineBarrier >> ELSE << >>)
      \o << CmdBindPipeline("kn2"), CmdBindDescriptorSets("args2"), CmdDispatch(n, 1, 1),
            CmdPipelineBarrier >>

InitTriple ==
    /\ DeviceInit(UnifiedDevice)
    /\ cb = [id \in CmdBufs |->
               CASE id = ImplicitCB -> sharedConstructor
                 [] id = 1 -> [live |-> TRUE, state |-> "Executable",
                               cmds |-> TripleMeCommands(MaxBytes, TRUE)]
                 [] OTHER  -> [live |-> TRUE, state |-> "Executable",
                               cmds |-> TripleMeCommands(MaxBytes, FALSE)]]
    /\ \E B \in [1..MaxBytes -> Byte] :
         /\ buffers = [b \in BufIds |->
                         IF b = "mp" THEN NewBuffer(MaxBytes, TRUE, MaxBytes, B) ELSE NoBuffer]
         /\ shadow = B
    /\ kernels = TripleMeKernels
    /\ programs = ExamplePrograms
    /\ arguments = TripleMeArguments

NextTriple ==
    \/ \E id \in UserCmdBufs : Device_submit(id)
    \/ Device_wait
    \/ \E i \in 1..MaxSubmits : DeviceExecute(i)
    \/ InvocationRun
    \/ DeviceWriteback
    \/ \E i \in 1..MaxSubmits : DeviceComplete(i)

SpecTriple == InitTriple /\ [][NextTriple]_vars

(***************************************************************************)
(* SpecComp: test.cc.  A mapped Buffer A of MaxBytes elements filled by    *)
(* the host, a device-local Buffer bN of one element that receives N by    *)
(* offload(), kernel comp with both as arguments, and a command buffer     *)
(* that dispatches some number of workgroups.  The caller offloads N,      *)
(* submits and waits.                                                      *)
(***************************************************************************)
CompKernels ==
    [k \in KernelIds |->
       IF k = "kn" THEN NewKernel("prog", "comp", << STORAGE_BUFFER, STORAGE_BUFFER >>)
       ELSE NoKernel]

CompArguments ==
    [a \in ArgumentsIds |->
       IF a = "args" THEN NewArguments("kn", CompKernels["kn"].bindings, << "mp", "dl" >>)
       ELSE NoArguments]

\* test.cc, lines 35-38, dispatching x workgroups.
CompCommands(x) == ctor3_bindings("kn", "args") \o << CmdDispatch(x, 1, 1), CmdPipelineBarrier >>

InitComp ==
    /\ \E types \in PhysicalDevices : DeviceInit(types)
    /\ \E x \in 0..MaxBytes :
         cb = [id \in CmdBufs |->
                 CASE id = ImplicitCB -> sharedConstructor
                   [] id = 1 -> [live |-> TRUE, state |-> "Executable", cmds |-> CompCommands(x)]
                   [] OTHER  -> NoCB]
    /\ \E A \in [1..MaxBytes -> Byte], fresh \in FreshMemory(1) :
         /\ buffers = [b \in BufIds |->
                         CASE b = "mp" -> NewBuffer(MaxBytes, TRUE, MaxBytes, A)
                           [] b = "dl" -> NewBuffer(1, FALSE, 1, fresh)
                           [] OTHER    -> NoBuffer]
         /\ shadow = A
    /\ kernels = CompKernels
    /\ programs = ExamplePrograms
    /\ arguments = CompArguments

NextComp ==
    \/ offloaded = << >> /\ Buffer_offload_call("dl")
    \/ Buffer_offload_return
    \/ offloaded # << >> /\ Device_submit(1)
    \/ Device_wait
    \/ \E i \in 1..MaxSubmits : DeviceExecute(i)
    \/ InvocationRun
    \/ DeviceWriteback
    \/ \E i \in 1..MaxSubmits : DeviceComplete(i)

SpecComp == InitComp /\ [][NextComp]_vars

(***************************************************************************)
(* SpecArgs: the caller builds one Kernel for an entry point of the shader *)
(* with a resourceTypes vector of any length, one Arguments object for it  *)
(* with a resources vector of any length, records a command buffer with    *)
(* both, dispatches, submits and waits.  As in the tests, nothing catches  *)
(* what the layer throws: the program ends at the first error.             *)
(***************************************************************************)
RECURSIVE SeqsUpTo(_, _)
SeqsUpTo(S, n) ==
    IF n = 0 THEN { << >> }
    ELSE SeqsUpTo(S, n - 1) \cup { Append(q, x) : q \in { q \in SeqsUpTo(S, n - 1) : Len(q) = n - 1 }, x \in S }

ResourceTypeVectors == SeqsUpTo({STORAGE_BUFFER}, MaxSlots)
ResourceVectors     == SeqsUpTo({"mp", "dl"}, MaxSlots) \ { << >> }

NoThrow == lastOp.err = NoError

InitArgs ==
    /\ DeviceInit(UnifiedDevice) /\ cb = NoUserCmdBufs /\ buffers = ExampleBuffers
    /\ kernels = NoKernels /\ arguments = NoArgumentSets /\ shadow = << >>
    /\ programs = NoPrograms

NextArgs ==
    \/ NoThrow /\ Program_fromFile("prog", ExampleLength)
    \/ NoThrow /\ \E e \in EntryPoints, t \in ResourceTypeVectors : Kernel_ctor("kn", "prog", e, t)
    \/ NoThrow /\ \E r \in ResourceVectors : Arguments_ctor("args", "kn", r)
    \/ NoThrow /\ arguments["args"].live /\ CommandBuffer_ctor3(1, "kn", "args")
    \/ NoThrow /\ Recording(1) /\ \E d \in DispatchDims : CommandBuffer_dispatch(1, d[1], d[2], d[3])
    \/ NoThrow /\ CommandBuffer_end(1)
    \/ NoThrow /\ Device_submit(1)
    \/ NoThrow /\ Device_wait
    \/ \E i \in 1..MaxSubmits : DeviceExecute(i)
    \/ InvocationRun
    \/ DeviceWriteback
    \/ \E i \in 1..MaxSubmits : DeviceComplete(i)

SpecArgs == InitArgs /\ [][NextArgs]_vars

(***************************************************************************)
(* SpecCtx: on a host with or without the validation layer and with up to  *)
(* MaxDevices physical devices of up to MaxFamilies queue families each,   *)
(* the caller constructs one Object, in any mode, and destroys it.         *)
(* SpecCtx2: on a host with at most one physical device, the caller        *)
(* constructs two Objects, in any modes, and destroys them, in any order.  *)
(***************************************************************************)
QueueFamilyLists == SeqsUpTo({ {VK_QUEUE_TRANSFER_BIT}, {VK_QUEUE_COMPUTE_BIT} }, MaxFamilies)
PhysicalDeviceLists == SeqsUpTo(QueueFamilyLists, MaxDevices)

NoObjects ==
    /\ DeviceFields(<< >>)
    /\ cb = [id \in CmdBufs |-> NoCB]
    /\ buffers = [b \in BufIds |-> NoBuffer]
    /\ kernels = NoKernels /\ arguments = NoArgumentSets /\ shadow = << >>
    /\ programs = NoPrograms
    /\ _verbose = FALSE
    /\ _profile = FALSE
    /\ objects = [obj \in ObjectIds |-> NoObject]
    /\ calls = << >>

InitCtx ==
    /\ NoObjects
    /\ instanceLayers \in { {}, validationLayers }
    /\ physicalDevices \in PhysicalDeviceLists

NextCtx ==
    \/ \E mode \in ModeOptions : Object_ctor("A", mode)
    \/ Object_dtor("A")

SpecCtx == InitCtx /\ [][NextCtx]_vars

InitCtx2 ==
    /\ NoObjects
    /\ instanceLayers \in { {}, validationLayers }
    /\ physicalDevices \in { pds \in PhysicalDeviceLists : Len(pds) <= 1 }

NextCtx2 ==
    \/ \E obj \in ObjectIds, mode \in ModeOptions : Object_ctor(obj, mode)
    \/ \E obj \in ObjectIds : Object_dtor(obj)

SpecCtx2 == InitCtx2 /\ [][NextCtx2]_vars

(***************************************************************************)
(* SpecMem: a physical device with any list of up to MaxTypes memory       *)
(* types.  The caller constructs the Device, creates a Buffer, moves host  *)
(* arrays in and out of it, then creates a command buffer, records,        *)
(* submits and waits; the program ends at the first error.                 *)
(***************************************************************************)
MemoryTypeLists == SeqsUpTo(SUBSET {HOST_VISIBLE, DEVICE_LOCAL}, MaxTypes)

\* Device::Device, lines 241-262: the two indices start as -1 (vkrtlib.h 96, 99),
\* the loop over the memory types sets each once, and the implicit command
\* buffer is created last; when that throws there is no Device.
Device_ctor ==
    /\ pc = "idle" /\ ~cb[ImplicitCB].live
    /\ lastOp.op # "Device"
    /\ \E f \in {"none", "vkCreateCommandPool", "vkAllocateCommandBuffers"} :
         LET e == sharedConstructor_throws(f) IN
         /\ lastOp' = Returned("Device", ImplicitCB, IF f = "none" THEN VK_SUCCESS ELSE VK_ERROR, e)
         /\ IF e = NoError
            THEN /\ memoryTypeMappable' = ScanMemoryTypes(memoryTypes, 0, HOST_VISIBLE, -1)
                 /\ memoryTypeLocal' = ScanMemoryTypes(memoryTypes, 0, DEVICE_LOCAL, -1)
                 /\ cb' = [cb EXCEPT ![ImplicitCB] = sharedConstructor]
            ELSE UNCHANGED << memoryTypeMappable, memoryTypeLocal, cb >>
    /\ UNCHANGED << contextVars, kernelVars, memoryTypes, queue, submitted, completed,
                    discipline, deviceLost, buffers, hostSrc, hostDst, hostOverrun,
                    offloaded, shadow, pc, xfer >>

\* The Device exists: its constructor has returned.
DeviceConstructed == cb[ImplicitCB].live

InitMem ==
    /\ memoryTypes \in MemoryTypeLists
    /\ memoryTypeMappable = -1
    /\ memoryTypeLocal = -1
    /\ NothingSubmitted
    /\ instanceLayers = {} /\ physicalDevices = << >> /\ _verbose = FALSE /\ _profile = FALSE
    /\ objects = [obj \in ObjectIds |-> NoObject] /\ calls = << >>
    /\ cb = [id \in CmdBufs |-> NoCB]
    /\ buffers = [b \in BufIds |-> NoBuffer]
    /\ kernels = NoKernels /\ arguments = NoArgumentSets /\ shadow = << >>
    /\ programs = NoPrograms

NextMem ==
    \/ Device_ctor
    \/ NoThrow /\ DeviceConstructed /\ \E m \in BOOLEAN : Buffer_ctor("dl", 1, m)
    \/ NoThrow /\ DeviceConstructed /\ CommandBuffer_ctor1(1)
    \/ NoThrow /\ DeviceConstructed /\ CommandBuffer_begin(1)
    \/ NoThrow /\ DeviceConstructed /\ CommandBuffer_end(1)
    \/ NoThrow /\ DeviceConstructed /\ Device_submit(1)
    \/ NoThrow /\ DeviceConstructed /\ Device_wait
    \/ NoThrow /\ DeviceConstructed /\ ~cb[1].live /\ Buffer_offload_call("dl")
    \/ Buffer_offload_return
    \/ NoThrow /\ DeviceConstructed /\ ~cb[1].live /\ Buffer_inload_call("dl")
    \/ Buffer_inload_return
    \/ \E i \in 1..MaxSubmits : DeviceExecute(i)
    \/ \E i \in 1..MaxSubmits : DeviceComplete(i)

SpecMem == InitMem /\ [][NextMem]_vars

\* Building a Context, a Program and a Kernel (SpecBuild): every constructor
\* with every driver call it makes failing or succeeding, on the hosts with at
\* most one physical device.
InitBuild ==
    /\ NoObjects
    /\ instanceLayers \in { {}, validationLayers }
    /\ physicalDevices \in { pds \in PhysicalDeviceLists : Len(pds) <= 1 }

Built == objects["A"].state = "live"

NextBuild ==
    \/ \E mode \in ModeOptions : Object_ctor("A", mode)
    \/ Built /\ NoThrow /\ \E byteLength \in CodeLengths : Program_fromFile("prog", byteLength)
    \/ Built /\ NoThrow /\ \E length \in CodeLengths, pointer \in PointerSizes :
          Program_fromData("prog", length, pointer)
    \/ Built /\ ~kernels["kn"].live /\ Program_destroy("prog")
    \/ Built /\ NoThrow /\ \E e \in EntryPoints, t \in ResourceTypeVectors :
          Kernel_ctor("kn", "prog", e, t)
    \/ Built /\ Kernel_destroy("kn")

SpecBuild == InitBuild /\ [][NextBuild]_vars

\* One user command buffer created, recorded, ended, submitted, waited for and
\* destroyed, the destroy() coming at any moment (SpecDestroy).
NextDestroy ==
    \/ CommandBuffer_ctor1(1)
    \/ CommandBuffer_begin(1)
    \/ Recording(1) /\ CommandBuffer_barrier(1)
    \/ CommandBuffer_end(1)
    \/ Device_submit(1)
    \/ Device_wait
    \/ CommandBuffer_destroy(1)
    \/ DeviceNext

SpecDestroy == InitRec /\ [][NextDestroy]_vars

\* One user command buffer, every method that forwards a vkCmd* call being
\* called on it in whatever state it is (SpecForward).
\* The counts of the dispatch calls: different in x, y and z, and none of them
\* the default.
Counts == << 2, 3, 4 >>

\* The caller of SpecForward puts at most two commands into a command buffer.
Short(id) == Len(cb[id].cmds) <= 1

NextForward ==
    \/ CommandBuffer_ctor1(1)
    \/ CommandBuffer_begin(1)
    \/ CommandBuffer_end(1)
    \/ Device_submit(1)
    \/ Short(1) /\ CommandBuffer_dispatch0(1)
    \/ Short(1) /\ CommandBuffer_dispatch1(1, Counts[1])
    \/ Short(1) /\ CommandBuffer_dispatch2(1, Counts[1], Counts[2])
    \/ Short(1) /\ CommandBuffer_dispatch(1, Counts[1], Counts[2], Counts[3])
    \/ Short(1) /\ CommandBuffer_barrier(1)
    \/ Short(1) /\ \E k \in Kernels : Kernel_bindTo(k, 1)
    \/ Short(1) /\ \E a \in ArgumentSets : Arguments_bindTo(a, 1)
    \/ Short(1) /\ Buffer_enqueueCopy("mp", "dl", 1, 1)
    \/ \E i \in 1..MaxSubmits : DeviceExecute(i)
    \/ \E i \in 1..MaxSubmits : DeviceComplete(i)

SpecForward == InitRec /\ [][NextForward]_vars

\* The objects tripleMe.cc constructs (lines 14-43) and its cleanup (lines
\* 65-73, then obj going out of scope at 76), statement by statement in the
\* order of main, on every host; an exception leaves main.
InitTeardown ==
    /\ DeviceFields(UnifiedDevice)
    /\ cb = [id \in CmdBufs |-> NoCB]
    /\ buffers = [b \in BufIds |-> NoBuffer]
    /\ kernels = NoKernels /\ arguments = NoArgumentSets /\ shadow = << >>
    /\ programs = NoPrograms
    /\ _verbose = FALSE
    /\ _profile = FALSE
    /\ objects = [obj \in ObjectIds |-> NoObject]
    /\ calls = << >>
    /\ instanceLayers \in { {}, validationLayers }
    /\ physicalDevices \in PhysicalDeviceLists

\* Line 43 was reached: everything main constructs is constructed.
AllBuilt == arguments["args2"] # NoArguments

NextTeardown ==
    \/ \E mode \in {VKRTL_none, VKRTL_verbose} : Object_ctor("A", mode)
    \/ NoThrow /\ Built /\ getDevice("A").device = "created"
          /\ programs["prog"] = NoProgram /\ Buffer_ctor("mp", 1, TRUE)
    \/ NoThrow /\ buffers["mp"].live /\ programs["prog"] = NoProgram
          /\ Program_fromFile("prog", ExampleLength)
    \/ NoThrow /\ programs["prog"].live /\ kernels["kn1"] = NoKernel
          /\ CommandBuffer_ctor1(1)
    \/ NoThrow /\ cb[1].live /\ kernels["kn1"] = NoKernel
          /\ Kernel_ctor("kn1", "prog", "doubleMe", << STORAGE_BUFFER >>)
    \/ NoThrow /\ arguments["args1"] = NoArguments
          /\ Arguments_ctor("args1", "kn1", << "mp" >>)
    \/ NoThrow /\ arguments["args1"].live /\ kernels["kn2"] = NoKernel
          /\ Kernel_ctor("kn2", "prog", "tripleMe", << STORAGE_BUFFER >>)
    \/ NoThrow /\ arguments["args2"] = NoArguments
          /\ Arguments_ctor("args2", "kn2", << "mp" >>)
    \/ NoThrow /\ AllBuilt /\ Buffer_destroy("mp")
    \/ NoThrow /\ AllBuilt /\ ~buffers["mp"].live /\ CommandBuffer_destroy(1)
    \/ NoThrow /\ AllBuilt /\ ~cb[1].live /\ Arguments_destroy("args1")
    \/ NoThrow /\ AllBuilt /\ ~arguments["args1"].live /\ Arguments_destroy("args2")
    \/ NoThrow /\ AllBuilt /\ ~arguments["args2"].live /\ Kernel_destroy("kn1")
    \/ NoThrow /\ AllBuilt /\ ~kernels["kn1"].live /\ Kernel_destroy("kn2")
    \/ NoThrow /\ AllBuilt /\ ~kernels["kn2"].live /\ Program_destroy("prog")
    \/ NoThrow /\ AllBuilt /\ programs["prog"].shaderModule = "destroyed"
          /\ Device_destroy("A")
    \/ NoThrow /\ Built /\ getDevice("A").device = "destroyed" /\ Object_dtor("A")

SpecTeardown == InitTeardown /\ [][NextTeardown]_vars

(***************************************************************************)
(* Claims about the Command Buffer state machine (SpecRec).                *)
(***************************************************************************)
Range(q) == { q[i] : i \in 1..Len(q) }

\* C1: when CommandBuffer(device, kernel, arguments) has returned without an error,
\* the command buffer is Recording and holds exactly two commands, first the
\* descriptor-set bind of the arguments and then the pipeline bind of the kernel;
\* Recording is the state in which dispatch/barrier/end are recorded, so no
\* further begin() is needed.
C1_ConvenienceConstructor ==
    (lastOp.op = "CommandBuffer3" /\ lastOp.err = NoError) =>
        LET c == cb[lastOp.obj] IN
        /\ c.live
        /\ c.state = "Recording"
        /\ c.state \in RecordableStates
        /\ \E k \in Kernels, a \in ArgumentSets :
              c.cmds = << CmdBindDescriptorSets(a), CmdBindPipeline(k) >>

C1_Witness == lastOp.op = "CommandBuffer3" /\ lastOp.err = NoError

\* C2 (as claimed): a begin() on a command buffer that is Recording throws
\* VKRTL_ERROR_COMMAND_BUFFER (RecordingFailed) and leaves the buffer's commands and
\* state as they were.
C2_BeginWhileRecordingFails ==
    [][ \A id \in UserCmdBufs :
          (cb[id].live /\ cb[id].state = "Recording" /\ CommandBuffer_begin(id)) =>
             (lastOp'.err = VKRTL_ERROR_COMMAND_BUFFER /\ cb' = cb) ]_vars

\* The moves the state machine of 4.7 lists; a buffer whose submission has
\* completed is Executable again.
ClaimedMoves ==
    { << "None", "Initial" >>, << "None", "Recording" >>, << "Initial", "Recording" >>,
      << "Recording", "Executable" >>, << "Executable", "Pending" >>,
      << "Pending", "Executable" >> }

RecordingOps == {"dispatch", "barrier", "Kernel::bindTo", "Arguments::bindTo", "enqueueCopy"}

InFlight == { queue[i].sub : i \in 1..Len(queue) }

\* C4: submit() returns as soon as the queue has accepted the batch, which is then
\* in flight or already complete (or gone with a device lost over a command buffer
\* freed in flight); when a wait() has returned without an error, no submission
\* made before it is still in flight and no command buffer is Pending.
C4_WaitDrainsQueue ==
    /\ (lastOp.op = "wait" /\ lastOp.err = NoError) =>
          /\ queue = << >>
          /\ \A n \in 1..Len(submitted) : n \in Range(completed)
          /\ \A id \in CmdBufs : cb[id].state # "Pending"
    /\ (lastOp.op = "submit" /\ lastOp.err = NoError) =>
          /\ Len(submitted) >= 1
          /\ submitted[Len(submitted)] = lastOp.obj
          /\ Len(submitted) \in InFlight \cup Range(completed) \/ deviceLost

C4_Witness ==
    /\ lastOp.op = "wait" /\ lastOp.err = NoError
    /\ Len(submitted) = MaxSubmits /\ Len(completed) = MaxSubmits

\* A submit() has returned while its work is still in the queue.
C4_SubmitReturnsWhilePending ==
    lastOp.op = "submit" /\ lastOp.err = NoError /\ Len(submitted) \in InFlight

C7_WaitSerialises ==
    discipline # "overlapped" =>
        /\ Len(queue) <= 1
        /\ \A i \in 1..Len(queue) :
              /\ queue[i].sub = Len(submitted)
              /\ \A n \in 1..(Len(submitted) - 1) : n \in Range(completed)
        /\ \A i, j \in 1..Len(completed) : i < j => completed[i] < completed[j]
        /\ discipline = "waited" => queue = << >>

C7_Witness ==
    /\ discipline = "waited"
    /\ Len(completed) = MaxSubmits
    /\ lastOp.op = "wait"

\* Without the wait two submissions are in flight together and the later one
\* completes first.
C7_OverlapOutOfOrder ==
    /\ discipline = "overlapped"
    /\ Len(completed) >= 2 /\ completed[1] > completed[2]

(***************************************************************************)
(* Claims about Buffers: transfers (SpecXfer) and mapping (SpecMap).       *)
(***************************************************************************)
\* C8 (as claimed): when an inload(dst) of a device-local Buffer has returned
\* without an error after an offload(src) to it that returned without an error,
\* and nothing else wrote the Buffer in between, dst holds the bytes of src.
C8_OffloadInloadRoundTrip ==
    (lastOp.op = "inload" /\ lastOp.err = NoError /\ offloaded # << >>) =>
        hostDst = offloaded

\* The round trip does hold on every device on which the staging buffer ends
\* up in host-visible memory.
C8_RoundTripWhenStagingMaps ==
    (HOST_VISIBLE \in memoryTypes[BufferMemoryType(StagingIsMappable) + 1]) =>
        C8_OffloadInloadRoundTrip

\* C9: a mappable Buffer mapped, written with a pattern, unmapped and mapped
\* again shows the same pattern through the new pointer; the pointer map()
\* returns covers the allocation from offset 0 to its end; the memory keeps the
\* pattern while unmapped.
C9_MapRoundTrip ==
    LET b == buffers["mp"] IN
    /\ b.live =>
          /\ MapWindow(b).offset = 0
          /\ MapWindow(b).size = b.alloc
          /\ DOMAIN MapView(b) = 1..b.alloc
    /\ (b.live /\ shadow # << >>) => b.data = shadow
    /\ (b.live /\ shadow # << >> /\ lastOp.op = "map" /\ lastOp.err = NoError) =>
          b.mapped /\ MapView(b) = shadow

\* The second map() after a write of a non-zero pattern over an allocation
\* larger than byteSize.
C9_Witness ==
    LET b == buffers["mp"] IN
    /\ b.live /\ b.mapped
    /\ lastOp.op = "map" /\ lastOp.err = NoError
    /\ b.alloc > b.byteSize
    /\ shadow # << >> /\ \A i \in DOMAIN shadow : shadow[i] = 1

\* C10 (as claimed): the staging buffer inload and offload create is allocated
\* from the Device's mappable memory-type index, whatever that index is.
C10_StagingFromMappableIndex ==
    (buffers["staging"].live /\ buffers["staging"] # Leaked) =>
        buffers["staging"].memType = memoryTypeMappable

\* The batches in the queue whose copy reads or writes the staging buffer.
StagingInFlight ==
    { i \in 1..Len(queue) :
        \E j \in 1..Len(queue[i].cmds) :
           /\ queue[i].cmds[j][1] = "vkCmdCopyBuffer"
           /\ "staging" \in {queue[i].cmds[j][2], queue[i].cmds[j][3]} }

\* C11: inload and offload are synchronous.  While the copy a transfer submitted
\* is in flight the staging buffer is allocated and not mapped; the host writes
\* the staging buffer (offload) only before the submit and reads it (inload)
\* only after the wait has returned with the copy complete; the staging buffer
\* is freed only in the step in which the wait returns, with nothing in flight;
\* a transfer that returns without an error leaves no submission unfinished.
C11_TransfersAreSynchronous ==
    /\ [](StagingInFlight # {} =>
            /\ buffers["staging"].live /\ buffers["staging"] # Leaked
            /\ ~buffers["staging"].mapped)
    /\ []((pc = "idle" /\ lastOp.op \in {"inload", "offload"} /\ lastOp.err = NoError) =>
            /\ queue = << >>
            /\ Len(completed) = Len(submitted)
            /\ cb[ImplicitCB].state = "Executable"
            /\ ~buffers["staging"].live)
    /\ [][ /\ (buffers["staging"].live /\ ~buffers'["staging"].live) =>
               /\ pc \in {"inload_wait", "offload_wait"} /\ pc' = "idle"
               /\ queue = << >> /\ lastOp'.err = NoError
           /\ (hostDst' # hostDst /\ hostDst' # << >>) =>
               /\ pc = "inload_wait" /\ queue = << >>
               /\ Len(completed) = Len(submitted)
           /\ (Len(queue') > Len(queue) /\ pc' = "offload_wait") =>
               /\ pc = "idle"
               /\ ~buffers'["staging"].mapped
               /\ HostVisible(buffers'["staging"]) =>
                     SubSeq(buffers'["staging"].data, 1, Len(hostSrc')) = hostSrc'
           /\ (StagingInFlight # {} /\ buffers'["staging"] # buffers["staging"]) =>
               \/ lastOp' = lastOp /\ pc' = pc /\ buffers'["staging"].live
               \/ queue = << >> ]_vars

\* An inload has returned the bytes its copy brought into the staging buffer.
C11_Witness ==
    /\ pc = "idle" /\ lastOp.op = "inload" /\ lastOp.err = NoError
    /\ Len(completed) = MaxSubmits
    /\ hostDst # << >>

(***************************************************************************)
(* Claims about kernels, arguments and dispatches.                         *)
(***************************************************************************)
\* Command buffer `id` alone was submitted, once, and the wait after it returned.
RanOnce(id) ==
    /\ submitted = << id >> /\ completed = << 1 >>
    /\ lastOp.op = "wait" /\ lastOp.err = NoError

TimesSix(B) == [i \in 1..Len(B) |-> B[i] * 6]

\* C12: after the command buffer that binds doubleMe, dispatches, records the
\* barrier, binds tripleMe and dispatches has been submitted and waited for,
\* every element of the shared buffer is six times what the host wrote.
C12_BarrierGivesTimesSix ==
    RanOnce(1) => buffers["mp"].data = TimesSix(shadow)

\* C12, second half: without the barrier a result other than six times the
\* original can be reached (this state is reachable).
C12_NoBarrierOtherResult ==
    RanOnce(2) /\ buffers["mp"].data # TimesSix(shadow)

\* test.cc has run to the end of wait(): N was offloaded, the command buffer
\* was submitted once and has completed.
CompRan ==
    /\ offloaded # << >>
    /\ submitted = << ImplicitCB, 1 >> /\ Len(completed) = 2
    /\ lastOp.op = "wait" /\ lastOp.err = NoError

Workgroups == cb[1].cmds[3][2]

\* C13: with N passed through the offloaded buffer, comp dispatched over N
\* workgroups leaves element i equal to original[i] + 3 for every i below N;
\* dispatched over N-1 workgroups it leaves element N-1 unmodified; no element
\* at index N or above is written.
C13_CompAddsThree ==
    CompRan =>
       LET N == offloaded[1]
           A == buffers["mp"].data
       IN
       /\ Workgroups = N => \A i \in 1..N : A[i] = shadow[i] + 3
       /\ (Workgroups = N - 1 /\ N >= 1) => A[N] = shadow[N]
       /\ \A i \in (N + 1)..Len(A) : A[i] = shadow[i]

\* The same holds on every device on which the staging buffer of offload()
\* ends up in host-visible memory.
C13_WhenStagingMaps ==
    (HOST_VISIBLE \in memoryTypes[BufferMemoryType(StagingIsMappable) + 1]) =>
        C13_CompAddsThree

\* C14: a Kernel built from a resourceTypes vector of length N has a layout of
\* exactly N slots, numbered 0..N-1 in the order of the vector, each for the
\* compute stage; an Arguments object built from a resources vector of length M
\* has a descriptor pool of exactly M storage-buffer descriptors and one set,
\* and writes resources[i] to slot i for every i in 0..M-1 (one write that
\* starts at slot 0 and carries all M buffers; every slot the layout has
\* receives its buffer).
C14_LayoutAndDescriptors ==
    /\ [][ \A e \in EntryPoints, t \in ResourceTypeVectors :
             (Kernel_ctor("kn", "prog", e, t) /\ lastOp'.err = NoError) =>
                /\ kernels'["kn"].live
                /\ Len(kernels'["kn"].bindings) = Len(t)
                /\ \A i \in 1..Len(t) :
                      /\ kernels'["kn"].bindings[i].binding = i - 1
                      /\ kernels'["kn"].bindings[i].descriptorType = t[i]
                      /\ kernels'["kn"].bindings[i].descriptorCount = 1
                      /\ kernels'["kn"].bindings[i].stageFlags = VK_SHADER_STAGE_COMPUTE_BIT ]_vars
    /\ [][ \A r \in ResourceVectors :
             (Arguments_ctor("args", "kn", r) /\ lastOp'.err = NoError) =>
                LET a == arguments'["args"] IN
                /\ a.live
                /\ a.poolSizes = << [type |-> STORAGE_BUFFER, descriptorCount |-> Len(r)] >>
                /\ a.maxSets = 1
                /\ a.write.dstBinding = 0
                /\ a.write.descriptorCount = Len(r)
                /\ a.write.pBufferInfo = r
                /\ \A i \in 1..Len(r) : i <= Len(a.set) => a.set[i] = r[i] ]_vars

C14_Witness ==
    /\ kernels["kn"].live /\ Len(kernels["kn"].bindings) = MaxSlots
    /\ arguments["args"].live /\ Len(arguments["args"].write.pBufferInfo) = MaxSlots
    /\ arguments["args"].set = << "mp", "dl" >>

\* The resourceTypes vector of kernel k does not have the length the entry
\* point declares, or the resources vector of a does not have the length of
\* the kernel's layout.
Mismatched(k, a) ==
    \/ Len(kernels[k].bindings) # DeclaredBindings(kernels[k].entry)
    \/ arguments[a].write.descriptorCount # Len(kernels[k].bindings)

\* C15: a Kernel whose resourceTypes vector differs in length from the bindings
\* the entry point declares, or an Arguments object whose resources vector
\* differs in length from the Kernel's layout, is never bound, dispatched and
\* submitted with no error raised: the program never gets through submit and
\* wait with such a pair.
C15_MismatchIsReported ==
    ~ ( /\ kernels["kn"].live /\ arguments["args"].live
        /\ Mismatched("kn", "args")
        /\ \E j \in 1..Len(cb[1].cmds) : cb[1].cmds[j][1] = "vkCmdDispatch"
        /\ submitted = << 1 >> /\ completed = << 1 >>
        /\ lastOp.op = "wait" /\ lastOp.err = NoError )

(***************************************************************************)
(* Claims about the Context and Device construction (SpecCtx, SpecCtx2).   *)
(***************************************************************************)
CallsOf(obj, fn) == { i \in 1..Len(calls) : calls[i].obj = obj /\ calls[i].fn = fn }
Failed(obj, fn)  == \E i \in CallsOf(obj, fn) : calls[i].vk # VK_SUCCESS
Constructed(obj) == objects[obj].state \in {"live", "failed"}

InstanceCreationFailed(obj) == Failed(obj, "vkCreateInstance")
EntryPointUnresolved(obj) ==
    Verbose(objects[obj].mode)
       /\ VK_EXT_DEBUG_REPORT_EXTENSION_NAME \notin objects[obj].createInfo.enabledExtensions
EnumerationFailed(obj) ==
    \/ Failed(obj, "vkEnumeratePhysicalDevices(count)")
    \/ Failed(obj, "vkEnumeratePhysicalDevices(handles)")
    \/ Len(physicalDevices) = 0

\* One Device wrapper per enumerated physical device, in enumeration order.
OneDevicePerAccelerator(obj) ==
    /\ Len(objects[obj].devices) = Len(physicalDevices)
    /\ \A k \in 1..Len(physicalDevices) : objects[obj].devices[k].physicalDevice = k

EarlyError(obj) ==
    IF InstanceCreationFailed(obj) THEN VKRTL_ERROR_CREATE_INSTANCE
    ELSE IF EntryPointUnresolved(obj) THEN VKRTL_ERROR_CREATE_REPORT_CALLBACK
    ELSE IF EnumerationFailed(obj) THEN VKRTL_ERROR_DEVICES
    ELSE NoError

\* C16 as stated: Object construction reports exactly one of three errors, tested
\* in the order instance, callback entry point, physical devices, and
\* otherwise holds one Device per physical device, in enumeration order.
C16_ThreeErrorKinds ==
    \A obj \in ObjectIds :
       Constructed(obj) =>
          /\ objects[obj].error = EarlyError(obj)
          /\ objects[obj].error = NoError => OneDevicePerAccelerator(obj)
          /\ objects[obj].state = "live" <=> objects[obj].error = NoError

\* The physical device whose Device construction failed, if any: the one after
\* the Devices already built.
DeviceError(obj) ==
    LET k == Len(objects[obj].devices) + 1 IN
    IF k > Len(physicalDevices) THEN NoError
    ELSE IF ~\E i \in 0..(Len(physicalDevices[k]) - 1) :
                VK_QUEUE_COMPUTE_BIT \in physicalDevices[k][i + 1]
         THEN VKRTL_ERROR_COMPUTE_QUEUE
    ELSE IF \E i \in CallsOf(obj, "vkCreateDevice") : calls[i].pd = k /\ calls[i].vk # VK_SUCCESS
         THEN VKRTL_ERROR_DEVICES
    ELSE IF \E i \in CallsOf(obj, "vkCreateCommandPool") : calls[i].pd = k /\ calls[i].vk # VK_SUCCESS
         THEN VKRTL_ERROR_COMMAND_POOL
    ELSE VKRTL_ERROR_COMMAND_BUFFER

\* C16, amended: Object construction reports the first of: the instance cannot
\* be created; verbose mode and the callback entry point cannot be resolved
\* (never in a non-verbose mode); an enumeration call fails or there is no
\* physical device; the error of the first Device construction that fails
\* (no compute queue, logical device, command pool or command buffer).  When
\* none applies the Object holds one Device per physical device, in
\* enumeration order.
C16_FirstErrorInOrder ==
    \A obj \in ObjectIds :
       Constructed(obj) =>
          /\ objects[obj].error =
                IF EarlyError(obj) # NoError THEN EarlyError(obj) ELSE DeviceError(obj)
          /\ objects[obj].error = NoError => OneDevicePerAccelerator(obj)
          /\ objects[obj].state = "live" <=> objects[obj].error = NoError
          /\ objects[obj].error = VKRTL_ERROR_CREATE_REPORT_CALLBACK => Verbose(objects[obj].mode)

C16_Witness ==
    /\ objects["A"].state = "live" /\ Len(objects["A"].devices) = MaxDevices
    /\ Verbose(objects["A"].mode)

\* C17: the validation layer is enabled on the instance only in mode verbose
\* or all, and only when the layer is available; in mode none or profile
\* the instance is created with no layer.
C17_LayerOnlyWhenVerbose ==
    \A obj \in ObjectIds :
       Constructed(obj) =>
          /\ objects[obj].createInfo.enabledLayers # {} =>
                Verbose(objects[obj].mode) /\ layersAvailable(instanceLayers)
          /\ ~Verbose(objects[obj].mode) => objects[obj].createInfo.enabledLayers = {}

\* C18: in verbose mode the callback is installed only if the validation
\* layer is present, the extension then being enabled on the instance; when the
\* layer is absent, construction does not look the entry point up, installs
\* no callback and does not fail with VKRTL_ERROR_CREATE_REPORT_CALLBACK.
C18_CallbackOnlyWithLayer ==
    \A obj \in ObjectIds :
       (Constructed(obj) /\ Verbose(objects[obj].mode)) =>
          /\ objects[obj].debugReportCallback = "installed" =>
                /\ layersAvailable(instanceLayers)
                /\ VK_EXT_DEBUG_REPORT_EXTENSION_NAME \in objects[obj].createInfo.enabledExtensions
          /\ ~layersAvailable(instanceLayers) =>
                /\ objects[obj].debugReportCallback = "none"
                /\ CallsOf(obj, "vkGetInstanceProcAddr(vkCreateDebugReportCallbackEXT)") = {}
                /\ objects[obj].error # VKRTL_ERROR_CREATE_REPORT_CALLBACK

\* C19: the destruction of an Object uninstalls the callback, if one was
\* installed, before it destroys the instance, and destroys the instance
\* exactly once.
C19_CallbackUninstalledFirst ==
    \A obj \in ObjectIds :
       objects[obj].state = "destroyed" =>
          /\ Cardinality(CallsOf(obj, "vkDestroyInstance")) = 1
          /\ objects[obj].debugReportCallback # "installed"
          /\ \A i \in CallsOf(obj, "vkCreateDebugReportCallbackEXT") :
                calls[i].vk = VK_SUCCESS =>
                   \E j \in CallsOf(obj, "vkDestroyDebugReportCallbackEXT") :
                      \A d \in CallsOf(obj, "vkDestroyInstance") : i < j /\ j < d

\* With one Object in the process the order is kept.
C19_SingleObject ==
    (objects["B"].state = "none") => C19_CallbackUninstalledFirst

\* The lowest index of a queue family with the compute flag, or -1.
LowestCompute(families) ==
    LET C == { i \in 0..(Len(families) - 1) : VK_QUEUE_COMPUTE_BIT \in families[i + 1] } IN
    IF C = {} THEN -1 ELSE CHOOSE i \in C : \A j \in C : i <= j

\* C20: Device construction selects the lowest-indexed queue family with the
\* compute flag and creates the logical device with exactly one queue of that
\* family; it fails with VKRTL_ERROR_COMPUTE_QUEUE, no logical device having
\* been created for the physical device, exactly when no family has the flag.
C20_ComputeQueueSelection ==
    \A obj \in ObjectIds :
       /\ \A q \in CallsOf(obj, "vkGetPhysicalDeviceQueueFamilyProperties") :
             LET k       == calls[q].pd
                 lc      == LowestCompute(physicalDevices[k])
                 creates == { i \in CallsOf(obj, "vkCreateDevice") : calls[i].pd = k }
             IN
             IF lc = -1
             THEN /\ creates = {}
                  /\ objects[obj].error = VKRTL_ERROR_COMPUTE_QUEUE
                  /\ Len(objects[obj].devices) = k - 1
             ELSE /\ Cardinality(creates) = 1
                  /\ \A i \in creates : calls[i].family = lc /\ calls[i].count = 1 /\ q < i
                  /\ k <= Len(objects[obj].devices) =>
                        objects[obj].devices[k].computeQueueFamily = lc
       /\ objects[obj].error = VKRTL_ERROR_COMPUTE_QUEUE =>
             \E q \in CallsOf(obj, "vkGetPhysicalDeviceQueueFamilyProperties") :
                LowestCompute(physicalDevices[calls[q].pd]) = -1

C20_Witness ==
    /\ objects["A"].state = "live"
    /\ \E k \in 1..Len(physicalDevices) :
          /\ physicalDevices[k] = << {VK_QUEUE_COMPUTE_BIT}, {VK_QUEUE_COMPUTE_BIT} >>
          /\ objects["A"].devices[k].computeQueueFamily = 0
    /\ \E k \in 1..Len(physicalDevices) :
          /\ physicalDevices[k] = << {VK_QUEUE_TRANSFER_BIT}, {VK_QUEUE_COMPUTE_BIT} >>
          /\ objects["A"].devices[k].computeQueueFamily = 1

(***************************************************************************)
(* Claims about the Device's memory-type indices (SpecMem).                *)
(***************************************************************************)
\* The smallest index of a memory type with the flag, or -1 if there is none.
LowestWith(flag) ==
    LET S == { i \in 0..(Len(memoryTypes) - 1) : flag \in memoryTypes[i + 1] } IN
    IF S = {} THEN -1 ELSE CHOOSE i \in S : \A j \in S : i <= j

\* C21: once the Device is constructed, memoryTypeMappable is the smallest index
\* of a host-visible memory type and memoryTypeLocal the smallest index of a
\* device-local one (-1 where the list has none), for every list of memory
\* types, and no later operation changes either.
C21_MemoryTypeIndices ==
    /\ [](DeviceConstructed =>
            /\ memoryTypeMappable = LowestWith(HOST_VISIBLE)
            /\ memoryTypeLocal = LowestWith(DEVICE_LOCAL))
    /\ [][DeviceConstructed => UNCHANGED << memoryTypeMappable, memoryTypeLocal >>]_vars

\* A device whose second type is the first host-visible one and whose first
\* type is device-local as is the second, after a transfer has gone through.
C21_Witness ==
    /\ DeviceConstructed
    /\ memoryTypes = << {DEVICE_LOCAL}, {HOST_VISIBLE, DEVICE_LOCAL} >>
    /\ memoryTypeMappable = 1 /\ memoryTypeLocal = 0
    /\ lastOp.op = "inload" /\ lastOp.err = NoError

\* The driver calls of Buffer::Buffer, in the order of the code.
BufferSteps ==
    << "vkCreateBuffer", "vkGetBufferMemoryRequirements", "vkAllocateMemory", "vkBindBufferMemory" >>

\* C22: Buffer(device, byteSize, mappable) allocates from memoryTypeMappable when
\* the flag is true and from memoryTypeLocal otherwise, binds the memory exactly
\* once, right after the allocation, throws VKRTL_ERROR_CREATE_BUFFER when the
\* handle cannot be created and VKRTL_ERROR_MALLOC when the allocation or the
\* binding fails; the calls are made in the order create, allocate, bind and
\* none is made after the first that fails.
C22_BufferCreate ==
    lastOp.op = "Buffer" =>
       LET c      == lastOp.calls
           at(fn) == { i \in 1..Len(c) : c[i][1] = fn }
           ok(i)  == c[i][Len(c[i])] = VK_SUCCESS
           bad(fn) == \E i \in at(fn) : ~ok(i)
       IN
       /\ Len(c) \in 1..Len(BufferSteps)
       /\ \A i \in 1..Len(c) : c[i][1] = BufferSteps[i]
       /\ \A i \in 1..Len(c) : ~ok(i) => i = Len(c)
       /\ \A i \in at("vkAllocateMemory") :
             c[i][3] = IF lastOp.mappable THEN memoryTypeMappable ELSE memoryTypeLocal
       /\ \A i \in at("vkAllocateMemory") :
             IF ok(i) THEN at("vkBindBufferMemory") = {i + 1} ELSE at("vkBindBufferMemory") = {}
       /\ at("vkBindBufferMemory") # {} => at("vkAllocateMemory") # {}
       /\ lastOp.err = VKRTL_ERROR_CREATE_BUFFER <=> bad("vkCreateBuffer")
       /\ lastOp.err = VKRTL_ERROR_MALLOC <=> (bad("vkAllocateMemory") \/ bad("vkBindBufferMemory"))
       /\ lastOp.err = NoError <=> (Len(c) = Len(BufferSteps) /\ \A i \in 1..Len(c) : ok(i))
       /\ lastOp.err = NoError =>
             /\ buffers["dl"].live
             /\ buffers["dl"].memType =
                   IF lastOp.mappable THEN memoryTypeMappable ELSE memoryTypeLocal

\* A mappable Buffer created on a device whose two indices differ.
C22_Witness ==
    /\ lastOp.op = "Buffer" /\ lastOp.err = NoError /\ lastOp.mappable
    /\ memoryTypeMappable = 1 /\ memoryTypeLocal = 0
    /\ buffers["dl"].live /\ buffers["dl"].memType = 1

(***************************************************************************)
(* Claims about failed constructions and the Program (SpecBuild).          *)
(***************************************************************************)
\* C25: a failure in a multi-step construction is raised at the step that
\* detected it (the last driver call made is the one that failed, and the error
\* is that step's), no call is made twice, and nothing acquired by earlier steps
\* is released: a Kernel whose two layouts were created and whose pipeline
\* creation fails throws VKRTL_ERROR_PIPELINE and leaves both layouts
\* allocated; a Context whose instance was created and that throws
\* VKRTL_ERROR_DEVICES leaves the instance, and the callback if one was
\* installed, allocated (no vkDestroyInstance and no
\* vkDestroyDebugReportCallbackEXT was called).
C25_FailedConstructionReleasesNothing ==
    /\ (lastOp.op = "Kernel" /\ lastOp.err # NoError) =>
         LET made == lastOp.calls
             k    == kernels[lastOp.obj] IN
         /\ made[Len(made)][2] # VK_SUCCESS
         /\ \A i \in 1..(Len(made) - 1) : made[i][2] = VK_SUCCESS
         /\ \A i, j \in 1..Len(made) : made[i][1] = made[j][1] => i = j
         /\ lastOp.err = (IF made[Len(made)][1] = "vkCreateComputePipelines"
                          THEN VKRTL_ERROR_PIPELINE ELSE VKRTL_ERROR_SHADER)
         /\ ~k.live
         /\ k.descriptorSetLayout = Created(made, "vkCreateDescriptorSetLayout")
         /\ k.pipelineLayout = Created(made, "vkCreatePipelineLayout")
         /\ lastOp.err = VKRTL_ERROR_PIPELINE =>
               k.descriptorSetLayout = "created" /\ k.pipelineLayout = "created"
    /\ (objects["A"].state = "failed" /\ objects["A"].error = VKRTL_ERROR_DEVICES) =>
         /\ objects["A"].instance = "created"
         /\ Cardinality(CallsOf("A", "vkCreateInstance")) = 1
         /\ CallsOf("A", "vkDestroyInstance") = {}
         /\ CallsOf("A", "vkDestroyDebugReportCallbackEXT") = {}
         /\ Cardinality(CallsOf("A", "vkEnumeratePhysicalDevices(count)")) = 1
         /\ Cardinality(CallsOf("A", "vkEnumeratePhysicalDevices(handles)")) <= 1
         /\ (\E i \in CallsOf("A", "vkCreateDebugReportCallbackEXT") : calls[i].vk = VK_SUCCESS)
               => objects["A"].debugReportCallback = "installed"

\* A Kernel whose pipeline creation failed after both layouts were created,
\* built in a Context that was constructed without error.
C25_Witness ==
    /\ lastOp.op = "Kernel" /\ lastOp.err = VKRTL_ERROR_PIPELINE
    /\ Len(lastOp.calls) = 3
    /\ kernels["kn"].descriptorSetLayout = "created" /\ ~kernels["kn"].live

\* A Context whose enumeration failed after the callback was installed.
C25_WitnessContext ==
    /\ objects["A"].state = "failed" /\ objects["A"].error = VKRTL_ERROR_DEVICES
    /\ objects["A"].debugReportCallback = "installed"
    /\ \E i \in CallsOf("A", "vkEnumeratePhysicalDevices(handles)") : calls[i].vk # VK_SUCCESS

\* C28: Program::Program(device, data) passes the driver a codeSize equal to
\* the size of the pointer (8 when pointers have 8 bytes), whatever the length
\* of the blob, and Program::Program(device, fileName) passes a codeSize equal
\* to the byte length of the file it read.
C28_CodeSize ==
    /\ [][ \A length \in CodeLengths, pointer \in PointerSizes :
             Program_fromData("prog", length, pointer) =>
                lastOp'.codeSize = pointer /\ lastOp'.length = length ]_vars
    /\ [][ \A byteLength \in CodeLengths :
             Program_fromFile("prog", byteLength) => lastOp'.codeSize = byteLength ]_vars
    /\ [](\A p \in ProgramIds : programs[p].live =>
             IF programs[p].from = "file" THEN programs[p].codeSize = programs[p].length
             ELSE programs[p].codeSize \in PointerSizes)

\* A blob of 12 bytes handed over with codeSize 8.
C28_Witness ==
    /\ lastOp.op = "Program" /\ lastOp.err = NoError
    /\ programs["prog"].live /\ programs["prog"].from = "data"
    /\ programs["prog"].length = 12 /\ programs["prog"].codeSize = 8

(***************************************************************************)
(* Claims about destruction (SpecTeardown, SpecQ).                         *)
(***************************************************************************)
\* The Buffers, Kernels, Programs, Arguments and user Command Buffers built
\* from the Device of getDevice() that are live.
LiveOnDevice ==
    \/ \E b \in BufIds : buffers[b].live
    \/ \E k \in KernelIds : kernels[k].live
    \/ \E q \in ProgramIds : programs[q].live
    \/ \E a \in ArgumentsIds : arguments[a].live
    \/ \E id \in UserCmdBufs : cb[id].live

\* Device::destroy() calls vkFreeCommandBuffers, vkDestroyCommandPool and
\* vkDestroyDevice for its device, in this order and nothing else.
DestroysImplicitThenDevice ==
    [][ Device_destroy("A") =>
          LET k == getDevice("A").physicalDevice
              n == Len(calls) IN
          /\ Len(calls') = n + 3
          /\ SubSeq(calls', 1, n) = calls
          /\ calls'[n + 1].fn = "vkFreeCommandBuffers" /\ calls'[n + 1].pd = k
          /\ calls'[n + 2].fn = "vkDestroyCommandPool" /\ calls'[n + 2].pd = k
          /\ calls'[n + 3].fn = "vkDestroyDevice" /\ calls'[n + 3].pd = k ]_vars

\* Nothing is live whose parent is destroyed, except that the instance may be
\* gone: every Arguments object is live only while its Kernel is, every
\* Kernel only while its Program is, and everything built from the Device only
\* while the logical device exists.
NoOrphanOnDevice ==
    /\ \A a \in ArgumentsIds : arguments[a].live => kernels[arguments[a].kernel].live
    /\ \A k \in KernelIds : kernels[k].live => programs[kernels[k].program].live
    /\ (Built /\ LiveOnDevice) => getDevice("A").device = "created"

\* Each thing that was created is destroyed once: the driver saw at most one
\* vkDestroyDevice per physical device and one vkDestroyInstance, and once the
\* instance is destroyed nothing main constructed is left.
DestroyedOnce ==
    /\ \A k \in 1..Len(physicalDevices) :
          Cardinality({ i \in CallsOf("A", "vkDestroyDevice") : calls[i].pd = k }) <= 1
    /\ Cardinality(CallsOf("A", "vkDestroyInstance")) <= 1
    /\ objects["A"].state = "destroyed" =>
          /\ ~LiveOnDevice
          /\ \A k \in KernelIds : kernels[k].pipeline # "created"
          /\ \A q \in ProgramIds : programs[q].shaderModule # "created"

\* The instance is destroyed only when every logical device created from it
\* has been destroyed.
DevicesBeforeInstance ==
    objects["A"].instance = "destroyed" =>
       \A i \in 1..Len(objects["A"].devices) : objects["A"].devices[i].device = "destroyed"

\* C23: Device::destroy() destroys the implicit Command Buffer (handle, then
\* pool) before the logical device, and in the teardown of the examples no
\* object is destroyed while an object built from it is live: Arguments before
\* their Kernel, Buffers, Kernels, Programs and Command Buffers before the
\* Device, the Device before the instance, each once.
C23_TeardownOrder ==
    /\ DestroysImplicitThenDevice
    /\ [](NoOrphanOnDevice /\ DestroyedOnce /\ DevicesBeforeInstance)

\* The same on a host that has one physical device.
C23_SingleDevice ==
    /\ DestroysImplicitThenDevice
    /\ [](NoOrphanOnDevice /\ DestroyedOnce)
    /\ [](Len(physicalDevices) = 1 => DevicesBeforeInstance)

\* The teardown ran to its end on a host with one physical device.
C23_TornDown ==
    /\ Len(physicalDevices) = 1 /\ objects["A"].state = "destroyed"
    /\ getDevice("A").device = "destroyed" /\ kernels["kn2"].pipeline = "destroyed"

\* C24: CommandBuffer::destroy() calls vkFreeCommandBuffers and then
\* vkDestroyCommandPool, can be called on a live Command Buffer in every state
\* and throws nothing, and neither waits for nor keeps track of a submission:
\* the queue, the submissions and the completions are what they were, a batch
\* of the destroyed buffer staying in the queue.
C24_DestroyFromEveryState ==
    /\ [](\A id \in UserCmdBufs : (pc = "idle" /\ cb[id].live) => ENABLED CommandBuffer_destroy(id))
    /\ [][ \A id \in UserCmdBufs : CommandBuffer_destroy(id) =>
             /\ lastOp'.calls = << "vkFreeCommandBuffers", "vkDestroyCommandPool" >>
             /\ lastOp'.err = NoError
             /\ lastOp'.from = cb[id].state
             /\ ~cb'[id].live
             /\ Len(queue') = Len(queue)
             /\ \A i \in 1..Len(queue) :
                   /\ queue'[i].sub = queue[i].sub /\ queue'[i].next = queue[i].next
                   /\ queue'[i].freed = (queue[i].freed \/ queue[i].cb = id)
             /\ UNCHANGED << submitted, completed >> ]_vars

\* destroy() returned on a Command Buffer that was submitted and not waited
\* for: its batch is still in the queue.
C24_Witness ==
    /\ lastOp.op = "destroy" /\ lastOp.from = "Pending" /\ lastOp.err = NoError
    /\ \E i \in 1..Len(queue) : queue[i].cb = lastOp.obj /\ queue[i].freed
    /\ Len(completed) < Len(submitted)

\* destroy() was called in each of the other states.
C24_WitnessRecording == lastOp.op = "destroy" /\ lastOp.from = "Recording"
C24_WitnessInitial == lastOp.op = "destroy" /\ lastOp.from = "Initial"
C24_WitnessExecutable == lastOp.op = "destroy" /\ lastOp.from = "Executable" /\ completed = << 1 >>
C24_WitnessInvalid == lastOp.op = "destroy" /\ lastOp.from = "Invalid"

(***************************************************************************)
(* Claims about the errors and the forwarding of the Command Buffer        *)
(* methods (SpecRec, SpecForward).                                         *)
(***************************************************************************)
\* The constructor threw because the driver rejected call fn.
CreateRejected(fn) ==
    lastOp.op = "CommandBuffer" /\ lastOp.err # NoError /\ lastOp.rejected = fn
\* begin() or end() threw because the driver rejected it.
RecordingRejected == lastOp.op \in {"begin", "end"} /\ lastOp.vk # VK_SUCCESS

\* The errors CommandBuffer(Device&) throws for a rejected pool and for a
\* rejected handle, and the one begin() and end() throw.
PoolCreationFailed == sharedConstructor_throws("vkCreateCommandPool")
AllocationFailed   == sharedConstructor_throws("vkAllocateCommandBuffers")
RecordingFailed    == begin_throws(VK_ERROR)

\* C26: the failures of a Command Buffer are told apart by their error: a
\* rejected pool creation throws one kind, a rejected handle allocation a
\* second, a rejected begin() or end() a third, and the error of one is not
\* the error of another.
C26_ErrorKindsDistinguishable ==
    /\ CreateRejected("vkCreateCommandPool") =>
          lastOp.err = PoolCreationFailed /\ lastOp.err \notin {AllocationFailed, RecordingFailed}
    /\ CreateRejected("vkAllocateCommandBuffers") =>
          lastOp.err = AllocationFailed /\ lastOp.err \notin {PoolCreationFailed, RecordingFailed}
    /\ RecordingRejected =>
          lastOp.err = RecordingFailed /\ lastOp.err \notin {PoolCreationFailed, AllocationFailed}

\* What holds of the three: the pool's error is its own, and begin() and end()
\* throw the same error as each other.
C26_PoolIsDistinguishable ==
    /\ CreateRejected("vkCreateCommandPool") => lastOp.err = VKRTL_ERROR_COMMAND_POOL
    /\ CreateRejected("vkAllocateCommandBuffers") => lastOp.err = VKRTL_ERROR_COMMAND_BUFFER
    /\ RecordingRejected => lastOp.err = VKRTL_ERROR_COMMAND_BUFFER
    /\ end_throws(VK_ERROR) = begin_throws(VK_ERROR)

\* A rejected handle allocation and a rejected end() were both seen.
C26_AllocationRejected == CreateRejected("vkAllocateCommandBuffers")
C26_EndRejected == lastOp.op = "end" /\ lastOp.vk # VK_SUCCESS

\* A forwarding method was called on command buffer 1 with vkCmd* call cmd:
\* it threw nothing, it made exactly that call, it left the state of the
\* buffer alone, and a buffer that was Recording has the command appended.
Forwards(cmd) ==
    /\ lastOp'.err = NoError
    /\ lastOp'.forwarded = cmd
    /\ lastOp'.from = cb[1].state
    /\ cb'[1].live /\ cb'[1].state = cb[1].state
    /\ cb[1].state = "Recording" => cb'[1].cmds = Append(cb[1].cmds, cmd)

\* The states a live command buffer can be called in here.
Callable == pc = "idle" /\ cb[1].live /\ Short(1)

\* C27: dispatch, barrier, Kernel::bindTo, Arguments::bindTo and enqueueCopy
\* validate nothing: each can be called in every state of the Command Buffer,
\* throws no error and only forwards its vkCmd* call; dispatch forwards the
\* three counts it was given, a count left out being 1.
C27_NoValidation ==
    /\ [](Callable =>
            /\ ENABLED CommandBuffer_dispatch(1, Counts[1], Counts[2], Counts[3])
            /\ ENABLED CommandBuffer_barrier(1)
            /\ ENABLED Kernel_bindTo("kn", 1)
            /\ ENABLED Arguments_bindTo("args", 1)
            /\ ENABLED Buffer_enqueueCopy("mp", "dl", 1, 1))
    /\ [][ /\ CommandBuffer_dispatch0(1) => Forwards(<< "vkCmdDispatch", 1, 1, 1 >>)
           /\ CommandBuffer_dispatch1(1, Counts[1]) =>
                 Forwards(<< "vkCmdDispatch", Counts[1], 1, 1 >>)
           /\ CommandBuffer_dispatch2(1, Counts[1], Counts[2]) =>
                 Forwards(<< "vkCmdDispatch", Counts[1], Counts[2], 1 >>)
           /\ CommandBuffer_dispatch(1, Counts[1], Counts[2], Counts[3]) =>
                 Forwards(<< "vkCmdDispatch", Counts[1], Counts[2], Counts[3] >>)
           /\ CommandBuffer_barrier(1) => Forwards(<< "vkCmdPipelineBarrier" >>)
           /\ Kernel_bindTo("kn", 1) => Forwards(<< "vkCmdBindPipeline", "kn" >>)
           /\ Arguments_bindTo("args", 1) => Forwards(<< "vkCmdBindDescriptorSets", "args" >>)
           /\ Buffer_enqueueCopy("mp", "dl", 1, 1) =>
                 Forwards(<< "vkCmdCopyBuffer", "mp", "dl", 1 >>) ]_vars

\* dispatch(2) returned without error on a Command Buffer that is Pending.
C27_Witness ==
    /\ lastOp.op = "dispatch" /\ lastOp.from = "Pending" /\ lastOp.err = NoError
    /\ lastOp.forwarded = << "vkCmdDispatch", 2, 1, 1 >>
    /\ cb[1].state = "Pending"

\* The other states and methods were met too.
C27_WitnessInitial == lastOp.op = "Kernel::bindTo" /\ lastOp.from = "Initial"
C27_WitnessExecutable == lastOp.op = "enqueueCopy" /\ lastOp.from = "Executable"
C27_WitnessNoPipeline ==
    /\ lastOp.op = "dispatch" /\ lastOp.from = "Recording"
    /\ cb[1].cmds = << << "vkCmdDispatch", 2, 3, 4 >> >>

(***************************************************************************)
(* Claims about the lengths and the implicit Command Buffer of the         *)
(* transfers (SpecXfer).                                                   *)
(***************************************************************************)
\* The byte counts of the copies inload and offload recorded into the implicit
\* command buffer.
RecordedCopyLengths ==
    { cb[ImplicitCB].cmds[j][4] :
        j \in { i \in 1..Len(cb[ImplicitCB].cmds) :
                  cb[ImplicitCB].cmds[i][1] = "vkCmdCopyBuffer" } }

\* C29: inload writes to and offload reads from the host pointer no more than
\* byteSize bytes, and the copy they record covers no more than byteSize bytes
\* of the Buffer, whatever size the driver reports for the Buffer's memory.
C29_TransfersWithinByteSize ==
    /\ hostOverrun = 0
    /\ buffers["dl"].live => \A n \in RecordedCopyLengths : n <= buffers["dl"].byteSize

\* What holds: the host memcpy and the recorded copy both have the length the
\* driver reported for the Buffer's memory, which is byteSize when the driver
\* adds nothing to it.
C29_TransfersCoverAllocation ==
    /\ hostOverrun \in {0, buffers["dl"].alloc - buffers["dl"].byteSize}
    /\ buffers["dl"].live => \A n \in RecordedCopyLengths : n = buffers["dl"].alloc
    /\ (buffers["dl"].live /\ buffers["dl"].alloc = buffers["dl"].byteSize) =>
          C29_TransfersWithinByteSize

\* An inload returned on a Buffer whose memory is larger than its byteSize.
C29_InloadPastTheEnd ==
    /\ lastOp.op = "inload" /\ lastOp.err = NoError
    /\ buffers["dl"].alloc > buffers["dl"].byteSize /\ hostOverrun > 0

\* The submissions of the implicit command buffer so far.
ImplicitSubmissions == { i \in 1..Len(submitted) : submitted[i] = ImplicitCB }

NextDrain ==
    \/ NoThrow /\ Device_submit(1)
    \/ NoThrow /\ Device_wait
    \/ NoThrow /\ Buffer_offload_call("dl")
    \/ Buffer_offload_return
    \/ NoThrow /\ Buffer_inload_call("dl")
    \/ Buffer_inload_return
    \/ \E i \in 1..MaxSubmits : DeviceExecute(i)
    \/ InvocationRun
    \/ DeviceWriteback
    \/ \E i \in 1..MaxSubmits : DeviceComplete(i)

SpecDrain == InitComp /\ [][NextDrain]_vars

(***************************************************************************)
(* Claims about the transfers and the queue.                               *)
(***************************************************************************)
\* A transfer has returned to the caller without throwing.
TransferReturned == pc = "idle" /\ lastOp.op \in {"inload", "offload"} /\ lastOp.err = NoError

\* C31: when inload or offload returns successfully the Device's queue is
\* idle.  Every submission made so far, the caller's earlier ones included, has
\* completed: no batch is in the queue, no command buffer is Pending, no
\* invocation is still to run and every store of the caller's work is in
\* memory, so the caller may map the buffers that work wrote without a wait()
\* of its own.  The step in which the transfer returns is taken only with the
\* queue empty.
C31_TransferDrainsQueue ==
    /\ [](TransferReturned =>
            /\ queue = << >>
            /\ Range(completed) = 1..Len(submitted)
            /\ \A id \in CmdBufs : cb[id].state # "Pending"
            /\ running = {} /\ cache = {})
    /\ [][ (pc \in {"inload_wait", "offload_wait"} /\ pc' = "idle" /\ lastOp'.err = NoError) =>
             /\ queue = << >> /\ running = {}
             /\ Range(completed) = 1..Len(submitted) ]_vars

\* The caller submitted its command buffer, did not wait, and an inload has
\* returned: the dispatch's stores are in the mapped buffer.
C31_Witness ==
    /\ TransferReturned /\ lastOp.op = "inload"
    /\ submitted = << 1, ImplicitCB >>
    /\ discipline = "overlapped"
    /\ buffers["mp"].data # shadow

(***************************************************************************)
(* Claims about the Contexts of one process.                               *)
(***************************************************************************)
\* Object `obj` asked the driver to install a callback when it was constructed.
InstalledAtCreation(obj) == CallsOf(obj, "vkCreateDebugReportCallbackEXT") # {}

\* The destructor of `obj` took the verbose branch of line 171.
VerboseAtDestruction(obj) ==
    CallsOf(obj, "vkGetInstanceProcAddr(vkDestroyDebugReportCallbackEXT)") # {}

\* C32: whatever Contexts are created and destroyed in the process, the
\* destruction of a Context takes the verbose branch exactly when the
\* Context was created verbose, and uninstalls a callback exactly when the
\* Context installed one at its creation.
C32_OwnVerboseSetting ==
    \A obj \in ObjectIds :
       objects[obj].state = "destroyed" =>
          /\ VerboseAtDestruction(obj) <=> Verbose(objects[obj].mode)
          /\ CallsOf(obj, "vkDestroyDebugReportCallbackEXT") # {} <=> InstalledAtCreation(obj)

\* With one Context in the process the setting consulted is its own.
C32_SingleObject ==
    (objects["B"].state = "none") => C32_OwnVerboseSetting

\* Logical device i of the Context, or its command pool or implicit command
\* buffer, is still allocated.
DeviceAllocated(obj, i) ==
    \/ objects[obj].devices[i].device = "created"
    \/ objects[obj].devices[i].commandPool = "created"
    \/ objects[obj].devices[i].commandBuffer = "created"

\* The step is the vkDestroyInstance call of the Context's destructor.
InstanceDestroyed(obj) ==
    objects[obj].instance = "created" /\ objects'[obj].instance = "destroyed"

\* C33: after the examples' teardown, at the moment the Context's destruction
\* destroys the instance, no logical device the Context created and no
\* implicit Command Buffer is still live, however many physical accelerators
\* the Context enumerated.
C33_NoDeviceOutlivesInstance ==
    [][ InstanceDestroyed("A") =>
          \A i \in 1..Len(objects["A"].devices) : ~DeviceAllocated("A", i) ]_vars

\* The same when the Context enumerated one physical accelerator.
C33_SingleAccelerator ==
    [][ (InstanceDestroyed("A") /\ Len(objects["A"].devices) = 1) =>
          ~DeviceAllocated("A", 1) ]_vars

(***************************************************************************)
(* Claims about the memory-type indices of a constructed Device.           *)
(***************************************************************************)
\* 0 <= index < physicalDeviceMemoryProperties.memoryTypeCount.
ValidMemoryType(index) == index \in 0..(Len(memoryTypes) - 1)

\* The physical device has a type of the kind.
Offers(flag) == \E i \in 1..Len(memoryTypes) : flag \in memoryTypes[i]

\* C34: once a Device has been constructed both memory-type indices are valid
\* indices of the physical device's memory types, and every Buffer created
\* afterwards, by the caller or as the staging buffer of a transfer, is
\* allocated from a valid memory type; on a physical device that lacks a
\* host-visible or a device-local type no Device comes to exist.
C34_IndicesValid ==
    /\ DeviceConstructed =>
          /\ ValidMemoryType(memoryTypeMappable) /\ ValidMemoryType(memoryTypeLocal)
          /\ Offers(HOST_VISIBLE) /\ Offers(DEVICE_LOCAL)
    /\ lastOp.op = "Buffer" =>
          \A i \in 1..Len(lastOp.calls) :
             lastOp.calls[i][1] = "vkAllocateMemory" => ValidMemoryType(lastOp.calls[i][3])
    /\ \A b \in BufIds :
          (buffers[b].live /\ buffers[b] # Leaked) => ValidMemoryType(buffers[b].memType)

\* The same on the physical devices that offer both kinds of memory.
C34_WhenBothKindsOffered ==
    (Offers(HOST_VISIBLE) /\ Offers(DEVICE_LOCAL)) => C34_IndicesValid

(***************************************************************************)
(* Claims about Context creation on hosts with several accelerators.       *)
(***************************************************************************)
\* Physical device k has a queue family with the compute flag.
ComputeCapable(k) == \E i \in 1..Len(physicalDevices[k]) : VK_QUEUE_COMPUTE_BIT \in physicalDevices[k][i]

\* Every driver call made for the Object returned VK_SUCCESS (and every entry
\* point looked up was resolved).
NoCallFailed(obj) == \A i \in 1..Len(calls) : calls[i].obj = obj => calls[i].vk = VK_SUCCESS

\* The physical devices whose Device was constructed for the Object (its last
\* step, the allocation of the implicit command buffer, went through) and
\* whose logical device has not been destroyed since.
DevicesAllocated(obj) ==
    { k \in 1..Len(physicalDevices) :
        /\ \E i \in CallsOf(obj, "vkAllocateCommandBuffers") :
              calls[i].pd = k /\ calls[i].vk = VK_SUCCESS
        /\ ~\E i \in CallsOf(obj, "vkDestroyDevice") : calls[i].pd = k }

\* C35: Context create succeeds whenever the driver rejects nothing and at
\* least one enumerated physical accelerator has a compute-capable queue
\* family; an accelerator without one does not make the create fail with
\* VKRTL_ERROR_COMPUTE_QUEUE; and a create that failed at one accelerator has
\* left no logical device and implicit Command Buffer of the accelerators
\* before it allocated.
C35_CreateSkipsAcceleratorsWithoutCompute ==
    \A obj \in ObjectIds :
       Constructed(obj) =>
          /\ (NoCallFailed(obj) /\ \E k \in 1..Len(physicalDevices) : ComputeCapable(k)) =>
                objects[obj].state = "live"
          /\ (\E k \in 1..Len(physicalDevices) : ComputeCapable(k)) =>
                objects[obj].error # VKRTL_ERROR_COMPUTE_QUEUE
          /\ objects[obj].state = "failed" => DevicesAllocated(obj) = {}

====
